---- MODULE Spec2Model ----
(***************************************************************************)
(* A model of the u-blox SARA-G350 driver (lorcap/lib-ublox-g350):         *)
(* the command slot, the I/O loop (_gs_loop), the URC dispatcher and the   *)
(* client operations built on them.  Lines are sequences of byte values,   *)
(* so that the classification of a line is computed as the code computes   *)
(* it (memcmp against the command table, binary search).                   *)
(***************************************************************************)
EXTENDS Integers, Sequences, FiniteSets, TLC

(***************************************************************************)
(* Program constants (src/csrc/g350.h)                                     *)
(***************************************************************************)
MAX_SOCKS == 7
MAX_BUF == 1024

MAX_CMD == 545

MAX_SOCK_HEX_BUF == 128
MAX_SOCK_HEX_RXBUF == 128 + 32
MAX_ERR_LEN == 32
GS_TLS_PROFILE == 1
GS_TIMEOUT == 1000

GS_ERR_OK == 0
GS_ERR_TIMEOUT == 1
GS_ERR_INVALID == 2

GS_REG_NOT == 0
GS_REG_UNKNOWN == 1
GS_REG_SEARCH == 2
GS_REG_DENIED == 3
GS_REG_OK == 4
GS_REG_ROAMING == 5

GS_RAT_GSM == 1
GS_RAT_GPRS == 2

GS_MODE_NORMAL == 0
GS_MODE_PROMPT == 1

GS_CMD_NORMAL == 1
GS_CMD_URC == 2

GS_RES_OK == 0
GS_RES_PARAM_OK == 1
GS_RES_NO == 2

\* enum of command identifiers: the index of the command in gs_commands
GS_CMD_CGATT == 2
GS_CMD_CGREG == 4
GS_CMD_CIEV == 6
GS_CMD_CMGL == 11
GS_CMD_CMGS == 12
GS_CMD_CMTI == 13
GS_CMD_COPS == 15
GS_CMD_CREG == 16
GS_CMD_USECMNG == 28
GS_CMD_USECPRF == 29
GS_CMD_USOCL == 30
GS_CMD_USOCO == 31
GS_CMD_USOCR == 32
GS_CMD_USORD == 36
GS_CMD_USORF == 37
GS_CMD_USOSEC == 38
GS_CMD_USOSO == 39
GS_CMD_USOST == 40
GS_CMD_USOWR == 41
GS_CMD_UUPSDA == 42
GS_CMD_UUSOCL == 44
GS_CMD_UUSORD == 46
GS_CMD_UUSORF == 47

\* static const GSCmd gs_commands[]: body bytes, len, response_type, urc, id
gs_commands ==
  <<
    [body |-> <<43, 67, 67, 73, 68>>, len |-> 5, response_type |-> GS_RES_OK, urc |-> GS_CMD_NORMAL, id |-> 0], \* 0 "+CCID"
    [body |-> <<43, 67, 67, 76, 75>>, len |-> 5, response_type |-> GS_RES_OK, urc |-> GS_CMD_NORMAL, id |-> 1], \* 1 "+CCLK"
    [body |-> <<43, 67, 71, 65, 84, 84>>, len |-> 6, response_type |-> GS_RES_OK, urc |-> GS_CMD_NORMAL, id |-> 2], \* 2 "+CGATT"
    [body |-> <<43, 67, 71, 69, 68>>, len |-> 5, response_type |-> GS_RES_OK, urc |-> GS_CMD_NORMAL, id |-> 3], \* 3 "+CGED"
    [body |-> <<43, 67, 71, 82, 69, 71>>, len |-> 6, response_type |-> GS_RES_OK, urc |-> GS_CMD_NORMAL + GS_CMD_URC, id |-> 4], \* 4 "+CGREG"
    [body |-> <<43, 67, 71, 83, 78>>, len |-> 5, response_type |-> GS_RES_NO, urc |-> GS_CMD_NORMAL, id |-> 5], \* 5 "+CGSN"
    [body |-> <<43, 67, 73, 69, 86>>, len |-> 5, response_type |-> GS_RES_NO, urc |-> GS_CMD_NORMAL + GS_CMD_URC, id |-> 6], \* 6 "+CIEV"
    [body |-> <<43, 67, 77, 69, 69>>, len |-> 5, response_type |-> GS_RES_OK, urc |-> GS_CMD_NORMAL, id |-> 7], \* 7 "+CMEE"
    [body |-> <<43, 67, 77, 69, 82>>, len |-> 5, response_type |-> GS_RES_OK, urc |-> GS_CMD_NORMAL, id |-> 8], \* 8 "+CMER"
    [body |-> <<43, 67, 77, 71, 68>>, len |-> 5, response_type |-> GS_RES_OK, urc |-> GS_CMD_NORMAL, id |-> 9], \* 9 "+CMGD"
    [body |-> <<43, 67, 77, 71, 70>>, len |-> 5, response_type |-> GS_RES_OK, urc |-> GS_CMD_NORMAL, id |-> 10], \* 10 "+CMGF"
    [body |-> <<43, 67, 77, 71, 76>>, len |-> 5, response_type |-> GS_RES_OK, urc |-> GS_CMD_NORMAL, id |-> 11], \* 11 "+CMGL"
    [body |-> <<43, 67, 77, 71, 83>>, len |-> 5, response_type |-> GS_RES_OK, urc |-> GS_CMD_NORMAL, id |-> 12], \* 12 "+CMGS"
    [body |-> <<43, 67, 77, 84, 73>>, len |-> 5, response_type |-> GS_RES_OK, urc |-> GS_CMD_URC, id |-> 13], \* 13 "+CMTI"
    [body |-> <<43, 67, 78, 77, 73>>, len |-> 5, response_type |-> GS_RES_OK, urc |-> GS_CMD_NORMAL, id |-> 14], \* 14 "+CNMI"
    [body |-> <<43, 67, 79, 80, 83>>, len |-> 5, response_type |-> GS_RES_OK, urc |-> GS_CMD_NORMAL, id |-> 15], \* 15 "+COPS"
    [body |-> <<43, 67, 82, 69, 71>>, len |-> 5, response_type |-> GS_RES_OK, urc |-> GS_CMD_NORMAL + GS_CMD_URC, id |-> 16], \* 16 "+CREG"
    [body |-> <<43, 67, 83, 67, 65>>, len |-> 5, response_type |-> GS_RES_OK, urc |-> GS_CMD_NORMAL, id |-> 17], \* 17 "+CSCA"
    [body |-> <<43, 67, 83, 67, 83>>, len |-> 5, response_type |-> GS_RES_OK, urc |-> GS_CMD_NORMAL, id |-> 18], \* 18 "+CSCS"
    [body |-> <<69>>, len |-> 1, response_type |-> GS_RES_OK, urc |-> GS_CMD_NORMAL, id |-> 19], \* 19 "E"
    [body |-> <<43, 71, 77, 82>>, len |-> 4, response_type |-> GS_RES_OK, urc |-> GS_CMD_NORMAL, id |-> 20], \* 20 "+GMR"
    [body |-> <<43, 73, 80, 82>>, len |-> 4, response_type |-> GS_RES_OK, urc |-> GS_CMD_NORMAL, id |-> 21], \* 21 "+IPR"
    [body |-> <<43, 85, 68, 67, 79, 78, 70>>, len |-> 7, response_type |-> GS_RES_OK, urc |-> GS_CMD_NORMAL, id |-> 22], \* 22 "+UDCONF"
    [body |-> <<43, 85, 68, 78, 83, 82, 78>>, len |-> 7, response_type |-> GS_RES_OK, urc |-> GS_CMD_NORMAL, id |-> 23], \* 23 "+UDNSRN"
    [body |-> <<43, 85, 80, 83, 68>>, len |-> 5, response_type |-> GS_RES_OK, urc |-> GS_CMD_NORMAL, id |-> 24], \* 24 "+UPSD"
    [body |-> <<43, 85, 80, 83, 68, 65>>, len |-> 6, response_type |-> GS_RES_OK, urc |-> GS_CMD_NORMAL, id |-> 25], \* 25 "+UPSDA"
    [body |-> <<43, 85, 80, 83, 78, 68>>, len |-> 6, response_type |-> GS_RES_OK, urc |-> GS_CMD_NORMAL, id |-> 26], \* 26 "+UPSND"
    [body |-> <<43, 85, 82, 65, 84>>, len |-> 5, response_type |-> GS_RES_OK, urc |-> GS_CMD_NORMAL, id |-> 27], \* 27 "+URAT"
    [body |-> <<43, 85, 83, 69, 67, 77, 78, 71>>, len |-> 8, response_type |-> GS_RES_OK, urc |-> GS_CMD_NORMAL, id |-> 28], \* 28 "+USECMNG"
    [body |-> <<43, 85, 83, 69, 67, 80, 82, 70>>, len |-> 8, response_type |-> GS_RES_OK, urc |-> GS_CMD_NORMAL, id |-> 29], \* 29 "+USECPRF"
    [body |-> <<43, 85, 83, 79, 67, 76>>, len |-> 6, response_type |-> GS_RES_OK, urc |-> GS_CMD_NORMAL, id |-> 30], \* 30 "+USOCL"
    [body |-> <<43, 85, 83, 79, 67, 79>>, len |-> 6, response_type |-> GS_RES_OK, urc |-> GS_CMD_NORMAL, id |-> 31], \* 31 "+USOCO"
    [body |-> <<43, 85, 83, 79, 67, 82>>, len |-> 6, response_type |-> GS_RES_OK, urc |-> GS_CMD_NORMAL, id |-> 32], \* 32 "+USOCR"
    [body |-> <<43, 85, 83, 79, 67, 84, 76>>, len |-> 7, response_type |-> GS_RES_OK, urc |-> GS_CMD_NORMAL, id |-> 33], \* 33 "+USOCTL"
    [body |-> <<43, 85, 83, 79, 71, 79>>, len |-> 6, response_type |-> GS_RES_OK, urc |-> GS_CMD_NORMAL, id |-> 34], \* 34 "+USOGO"
    [body |-> <<43, 85, 83, 79, 76, 73>>, len |-> 6, response_type |-> GS_RES_OK, urc |-> GS_CMD_NORMAL, id |-> 35], \* 35 "+USOLI"
    [body |-> <<43, 85, 83, 79, 82, 68>>, len |-> 6, response_type |-> GS_RES_OK, urc |-> GS_CMD_NORMAL, id |-> 36], \* 36 "+USORD"
    [body |-> <<43, 85, 83, 79, 82, 70>>, len |-> 6, response_type |-> GS_RES_OK, urc |-> GS_CMD_NORMAL, id |-> 37], \* 37 "+USORF"
    [body |-> <<43, 85, 83, 79, 83, 69, 67>>, len |-> 7, response_type |-> GS_RES_OK, urc |-> GS_CMD_NORMAL, id |-> 38], \* 38 "+USOSEC"
    [body |-> <<43, 85, 83, 79, 83, 79>>, len |-> 6, response_type |-> GS_RES_OK, urc |-> GS_CMD_NORMAL, id |-> 39], \* 39 "+USOSO"
    [body |-> <<43, 85, 83, 79, 83, 84>>, len |-> 6, response_type |-> GS_RES_OK, urc |-> GS_CMD_NORMAL, id |-> 40], \* 40 "+USOST"
    [body |-> <<43, 85, 83, 79, 87, 82>>, len |-> 6, response_type |-> GS_RES_OK, urc |-> GS_CMD_NORMAL, id |-> 41], \* 41 "+USOWR"
    [body |-> <<43, 85, 85, 80, 83, 68, 65>>, len |-> 7, response_type |-> GS_RES_NO, urc |-> GS_CMD_URC, id |-> 42], \* 42 "+UUPSDA"
    [body |-> <<43, 85, 85, 80, 83, 68, 68>>, len |-> 7, response_type |-> GS_RES_NO, urc |-> GS_CMD_URC, id |-> 43], \* 43 "+UUPSDD"
    [body |-> <<43, 85, 85, 83, 79, 67, 76>>, len |-> 7, response_type |-> GS_RES_NO, urc |-> GS_CMD_URC, id |-> 44], \* 44 "+UUSOCL"
    [body |-> <<43, 85, 85, 83, 79, 76, 73>>, len |-> 7, response_type |-> GS_RES_NO, urc |-> GS_CMD_URC, id |-> 45], \* 45 "+UUSOLI"
    [body |-> <<43, 85, 85, 83, 79, 82, 68>>, len |-> 7, response_type |-> GS_RES_NO, urc |-> GS_CMD_URC, id |-> 46], \* 46 "+UUSORD"
    [body |-> <<43, 85, 85, 83, 79, 82, 70>>, len |-> 7, response_type |-> GS_RES_NO, urc |-> GS_CMD_URC, id |-> 47] \* 47 "+UUSORF"
  >>

KNOWN_COMMANDS == Len(gs_commands)

GS_GET_CMD(cmdid) == gs_commands[cmdid + 1]

\* "no command" / NULL pointer results are modelled as -1
NULL == 0 - 1

MIN(a, b) == IF a < b THEN a ELSE b

(***************************************************************************)
(* Byte strings used by the code and lines the modem can put on the wire   *)
(***************************************************************************)
LineOK == <<79, 75, 13, 10>>  \* 'OK\r\n'
LineERROR == <<69, 82, 82, 79, 82, 13, 10>>  \* 'ERROR\r\n'
LineCME == <<43, 67, 77, 69, 32, 69, 82, 82, 79, 82, 58, 32, 111, 112, 101, 114, 97, 116, 105, 111, 110, 32, 110, 111, 116, 32, 97, 108, 108, 111, 119, 101, 100, 44, 32, 112, 108, 101, 97, 115, 101, 32, 114, 101, 116, 114, 121, 13, 10>>  \* '+CME ERROR: operation not allowed, please retry\r\n'
LineCMS == <<43, 67, 77, 83, 32, 69, 82, 82, 79, 82, 58, 32, 53, 48, 48, 13, 10>>  \* '+CMS ERROR: 500\r\n'
LinePrompt == <<62, 32>>  \* '> '
UrcCIEV == <<43, 67, 73, 69, 86, 58, 32, 50, 44, 51, 13, 10>>  \* '+CIEV: 2,3\r\n'
UrcCREG == <<43, 67, 82, 69, 71, 58, 32, 49, 13, 10>>  \* '+CREG: 1\r\n'
UrcCGREG == <<43, 67, 71, 82, 69, 71, 58, 32, 53, 13, 10>>  \* '+CGREG: 5\r\n'
UrcCMTI == <<43, 67, 77, 84, 73, 58, 32, 34, 83, 77, 34, 44, 49, 13, 10>>  \* '+CMTI: "SM",1\r\n'
UrcUUPSDA == <<43, 85, 85, 80, 83, 68, 65, 58, 32, 48, 13, 10>>  \* '+UUPSDA: 0\r\n'
UrcUUSOCL == <<43, 85, 85, 83, 79, 67, 76, 58, 32, 48, 13, 10>>  \* '+UUSOCL: 0\r\n'
UrcUUSORD == <<43, 85, 85, 83, 79, 82, 68, 58, 32, 48, 44, 52, 13, 10>>  \* '+UUSORD: 0,4\r\n'
UrcUUSORF == <<43, 85, 85, 83, 79, 82, 70, 58, 32, 49, 44, 52, 13, 10>>  \* '+UUSORF: 1,4\r\n'
ArgSep == <<58, 32>>  \* ': '
CRLF == <<13, 10>>  \* '\r\n'
Args0 == <<48>>  \* '0'

Args1 == <<49>>  \* '1'
ArgsCREG == <<50, 44, 49>>  \* '2,1'

ArgsCGREG0 == <<50, 44, 48>>  \* '2,0'
ArgsCMGS == <<52, 50>>  \* '42'
ArgsCMGL == <<49, 44, 34, 82, 69, 67, 32, 82, 69, 65, 68, 34, 44, 34, 43, 49, 53, 53, 53, 49, 50, 51, 52, 53, 54, 55, 34, 44, 44, 34, 50, 48, 47, 48, 49, 47, 48, 49, 44, 48, 48, 58, 48, 48, 58, 48, 48, 43, 48, 48, 34>>  \* '1,"REC READ","+15551234567",,"20/01/01,00:00:00+00"'
ArgsUSORD0 == <<48, 44, 48, 44, 34, 34>>  \* '0,0,""'
ArgsUSORD2 == <<48, 44, 50, 44, 34, 54, 56, 54, 57, 34>>  \* '0,2,"6869"'
ArgsUSOWR0 == <<48, 44, 48>>  \* '0,0'
ArgsUSOWR8 == <<48, 44, 56>>  \* '0,8'
ArgsUSOWR32 == <<48, 44, 51, 50>>  \* '0,32'
ArgsUSORF0 == <<48, 44, 48, 44, 34, 49, 46, 50, 46, 51, 46, 52, 34, 44, 56, 48, 44, 34, 34>>  \* '0,0,"1.2.3.4",80,""'
ArgsUSORF2 == <<48, 44, 50, 44, 34, 49, 46, 50, 46, 51, 46, 52, 34, 44, 56, 48, 44, 34, 54, 56, 54, 57, 34>>  \* '0,2,"1.2.3.4",80,"6869"'
Delims == <<44, 13, 10>>  \* ',\r\n'
StrCME == <<43, 67, 77, 69, 32, 69, 82, 82, 79, 82, 58, 32>>  \* '+CME ERROR: '
StrERROR == <<69, 82, 82, 79, 82>>  \* 'ERROR'
StrREAD == <<82, 69, 65, 68>>  \* 'READ'

(***************************************************************************)
(* Line classification, as the code computes it on gs.buffer.              *)
(* _gs_readline zeroes the first 16 bytes of gs.buffer before reading and  *)
(* terminates the line with a 0: a byte past the line reads as 0.          *)
(***************************************************************************)
BufAt(buffer, i) == IF i >= 0 /\ i < Len(buffer) THEN buffer[i + 1] ELSE 0

RECURSIVE memcmp_from(_, _, _, _, _)
memcmp_from(buffer, ofs, body, i, n) ==
    IF i >= n THEN 0
    ELSE IF BufAt(buffer, ofs + i) > body[i + 1] THEN 1
    ELSE IF BufAt(buffer, ofs + i) < body[i + 1] THEN 0 - 1
    ELSE memcmp_from(buffer, ofs, body, i + 1, n)

memcmp(buffer, body, n) == memcmp_from(buffer, 0, body, 0, n)

_gs_check_ok(buffer, bytes) == memcmp(buffer, LineOK, 4) = 0 /\ bytes >= 4

IsCmeError(buffer, bytes) == memcmp(buffer, StrCME, 12) = 0 /\ bytes >= 12

IsBareError(buffer, bytes) == memcmp(buffer, StrERROR, 5) = 0 /\ bytes >= 5

_gs_check_error(buffer, bytes) == IsCmeError(buffer, bytes) \/ IsBareError(buffer, bytes)

\* gs.errlen and gs.errmsg after _gs_check_error returned 1
ErrLenAfter(buffer, bytes) ==
    IF IsCmeError(buffer, bytes) THEN MIN(bytes - 12, MAX_ERR_LEN) ELSE 0

ErrMsgAfter(buffer, bytes, errmsg) ==
    IF IsCmeError(buffer, bytes)
    THEN SubSeq(buffer, 13, 12 + MIN(bytes - 12, MAX_ERR_LEN))
    ELSE errmsg

RECURSIVE bsearch(_, _, _)
bsearch(buffer, e0, e1) ==
    IF e0 > e1 THEN NULL
    ELSE LET c == (e0 + e1) \div 2
             cmd == gs_commands[c + 1]
             r == memcmp(buffer, cmd.body, cmd.len)
         IN  IF r > 0 THEN bsearch(buffer, c + 1, e1)
             ELSE IF r < 0 THEN bsearch(buffer, e0, c - 1)
             ELSE c

\* the id of the command found, or NULL
_gs_parse_command_response(buffer) == bsearch(buffer, 0, KNOWN_COMMANDS - 1)

_gs_valid_command_response(buffer, bytes, cmd) ==
    IF BufAt(buffer, cmd.len) = 58 /\ BufAt(buffer, cmd.len + 1) = 32 /\ bytes >= cmd.len + 2
    THEN cmd.len + 2
    ELSE 0

(***************************************************************************)
(* Argument parsing.  Positions are 0-based offsets into the byte string.  *)
(***************************************************************************)
InPattern(ch, pattern) == \E j \in 1..Len(pattern) : pattern[j] = ch

RECURSIVE _gs_advance_to(_, _, _, _)
_gs_advance_to(b, buf, ebuf, pattern) ==
    IF buf >= ebuf THEN NULL
    ELSE IF InPattern(BufAt(b, buf), pattern) THEN buf
    ELSE _gs_advance_to(b, buf + 1, ebuf, pattern)

\* [ok |-> the returned pointer is not NULL, val |-> *result]
RECURSIVE _gs_parse_number(_, _, _, _)
_gs_parse_number(b, buf, ebuf, res) ==
    IF buf >= ebuf THEN [ok |-> TRUE, val |-> res]
    ELSE LET ch == BufAt(b, buf) IN
         IF ch >= 48 /\ ch <= 57 THEN _gs_parse_number(b, buf + 1, ebuf, res * 10 + (ch - 48))
         ELSE IF ch # 32 /\ ch # 13 /\ ch # 10 THEN [ok |-> FALSE, val |-> 0]
         ELSE _gs_parse_number(b, buf + 1, ebuf, res)

\* the values stored through the variadic pointers, in order; the function
\* returns their number.  An "i" gives an integer, "s"/"S" a [start, len].
RECURSIVE parse_args(_, _, _, _, _, _)
parse_args(b, buf, pms, fmt, k, acc) ==
    IF buf >= Len(b) THEN acc
    ELSE LET d == _gs_advance_to(b, buf, Len(b), Delims) IN
         IF d = NULL THEN acc
         ELSE LET pme == d - 1 IN
              IF k > Len(fmt) THEN acc
              ELSE IF fmt[k] = "i"
              THEN LET r == _gs_parse_number(b, pms, pme + 1, 0) IN
                   IF ~r.ok THEN acc
                   ELSE parse_args(b, d + 1, d + 1, fmt, k + 1, Append(acc, r.val))
              ELSE LET s0 == IF fmt[k] = "S" /\ BufAt(b, pms) = 34 THEN pms + 1 ELSE pms
                       e0 == IF fmt[k] = "S" /\ BufAt(b, pme) = 34 THEN pme - 1 ELSE pme
                   IN  parse_args(b, d + 1, d + 1, fmt, k + 1,
                                  Append(acc, [start |-> s0, len |-> (e0 - s0) + 1]))

_gs_parse_command_arguments(b, fmt) == parse_args(b, 0, 0, fmt, 1, <<>>)

(***************************************************************************)
(* Bounds of the model                                                     *)
(***************************************************************************)
NumClients == 2

MaxCalls == 2

MaxWire == 1

MaxTicks == 2

MaxUrcs == 1

MaxSockCalls == 3

Clients == 1..NumClients

\* one step of the clock: 200 s, longer than every timeout of the driver
\* (the longest is the 180 s of _gs_attach)
TickMs == 200 * GS_TIMEOUT

MaxNow == MaxTicks * TickMs

\* _gs_wait_for_slot_mode polls gs.mode 100 times, 100 ms apart
WaitModeMs == 100 * 100

\* the prompt branch of _gs_loop sleeps 40 times 500 ms
PromptMs == 40 * 500

\* _gs_stop polls gs.running 50 times, _gs_start 30 times, 100 ms apart
StopMs == 50 * 100

StartMs == 30 * 100

Uint8(x) == x % 256

(***************************************************************************)
(* State                                                                   *)
(***************************************************************************)
VARIABLES
    gs,          \* GStatus: the driver's global status
    gslot,       \* GSSlot gslot: the one command slot (tag is a ghost field)
    slotlock,    \* count of semaphore gs.slotlock
    slotdone,    \* count of semaphore gs.slotdone
    gs_sockets,  \* GSocket gs_sockets[MAX_SOCKS]
    loop,        \* position of the _gs_loop thread
    client,      \* the client threads: position, operation, result
    life,        \* the thread calling startup / shutdown
    modem,       \* commands the modem has received and not fully answered
    wire,        \* chunks of bytes sent by the modem, not yet read
    now,         \* vosMillis(), a uint32: the clock stays below MaxNow, so nothing wraps
    it,          \* ghost: what the last iteration of _gs_loop did
    calls,       \* ghost: number of operations called so far
    urcs,        \* ghost: number of unsolicited lines sent so far
    rl,          \* _gs_readline seen byte by byte: gs.bytes, the line being sent
    ril,         \* ril_state_t of the response parser (libril)
    io           \* the byte transport of libril: what read will return, what was written

vars == <<gs, gslot, slotlock, slotdone, gs_sockets, loop, client, life, modem, wire, now, it, calls, urcs, rl, ril, io>>

\* GSSlot after memset(slot, 0, sizeof(GSSlot)); resp is the bytes between
\* slot->resp and slot->eresp
ZeroSlot ==
    [cmd |-> NULL, err |-> 0, allocated |-> 0, has_params |-> 0, params |-> 0,
     max_size |-> 0, stime |-> 0, timeout |-> 0, resp |-> <<>>, tag |-> 0]

ZeroSocket == [acquired |-> 0, to_be_closed |-> 0, timeout |-> 0, proto |-> 0, rx |-> 0]

\* GStatus after _gs_init
InitStatus ==
    [initialized |-> 1, thread |-> 0, talking |-> 0, running |-> 0,
     mode |-> GS_MODE_NORMAL, slot |-> FALSE,
     errlen |-> 0, errmsg |-> <<>>, secure_sock_id |-> NULL,
     attached |-> 0, registered |-> 0, gsm_status |-> 0, gprs_status |-> 0,
     tech |-> 0, rssi |-> 0, gprs |-> 0,
     pendingsms |-> 0, skipsms |-> 0, cursms |-> 0, maxsms |-> 0, offsetsms |-> 0]

IdleClient ==
    [pc |-> "idle", op |-> "none", tag |-> 0, down |-> FALSE, err |-> 0, res |-> "none",
     ret |-> 0, t0 |-> 0, api |-> "none", args |-> <<>>, sock |-> 0, rb |-> 0, step |-> 0,
     timeout |-> 0, sent |-> <<>>, seen |-> FALSE, expired |-> "none"]

NoIt ==
    [kind |-> "none", line |-> <<>>, ret |-> 0, preSlot |-> FALSE, pre |-> ZeroSlot,
     preMode |-> GS_MODE_NORMAL, expired |-> FALSE, signalled |-> "none",
     filled |-> FALSE, urc |-> NULL, lineTag |-> 0, sockPre |-> ZeroSocket,
     wrote |-> FALSE]

\* no _gs_readline in progress and no line on its way: gs.bytes, the bytes
\* of the modem's line not yet read (rest; the last one is its line feed),
\* the highest index of gs.buffer written by the call (top, history), the
\* value returned, and the number of lines sent so far.  Where the bytes
\* themselves matter: the bytes the modem has still to send (emit), the
\* bytes waiting in the serial driver (fifo), the bytes stored in gs.buffer
\* by the call (buf), vosMillis() at its start (tstart), the lines sent
\* (emitted, history) and the lines given to the classification (handed,
\* history)
NoReadline ==
    [pc |-> "idle", bytes |-> 0, rest |-> 0, top |-> 0 - 1, ret |-> 0, lines |-> 0,
     emit |-> <<>>, fifo |-> <<>>, buf |-> <<>>, tstart |-> 0,
     emitted |-> <<>>, handed |-> <<>>]

\* size of the parser's buffer, the buffer_max given to ril_rsp_init
RilBufMax == 3

\* ril_state_t after ril_rsp_init; buf holds the count valid bytes; last is
\* the operation made last with the state it found (history).  The size_t
\* fields are kept as the 32-bit patterns read as signed integers: 0 - 1 is
\* SIZE_MAX
NoParser ==
    [error |-> 0, count |-> 0, index |-> 0, timeout |-> 0, buf_max |-> RilBufMax, buf |-> <<>>,
     last |-> [op |-> "init", index |-> 0, count |-> 0, buf |-> <<>>]]

\* the transport with nothing to read and nothing written: in is what the
\* read callback returns call after call (a byte, 0 - 1 or 0 - 2; 0 - 2 for
\* ever once it is empty), out the bytes the write callback accepted in the
\* last call and room the number it will still accept (0 - 1: any number).
\* The other fields are history: the number of inputs sent so far (fed),
\* the input and the error before the last call (pre, preError), what it
\* took from the input (read), what it returned (ret), the value and the string it stored, its argument, and
\* the table search of ril_rsp_stra
NoIo ==
    [in |-> <<>>, out |-> <<>>, room |-> 0 - 1, fed |-> 0,
     pre |-> <<>>, preError |-> 0, read |-> <<>>,
     timeout |-> FALSE, ret |-> 0, val |-> 0, str |-> <<>>, arg |-> <<>>,
     pc |-> "idle", min |-> 0, max |-> 0, steps |-> 0, table |-> <<>>]

\* the state after _g350_init: the loop thread does not exist yet
Init ==
    /\ gs = InitStatus
    /\ gslot = ZeroSlot
    /\ slotlock = 1
    /\ slotdone = 0
    /\ gs_sockets = [i \in 0..(MAX_SOCKS - 1) |-> ZeroSocket]
    /\ loop = [pc |-> "top", t0 |-> 0, ss |-> 0]
    /\ client = [c \in Clients |-> IdleClient]
    /\ life = [pc |-> "idle", t0 |-> 0, err |-> "none"]
    /\ modem = <<>>
    /\ wire = <<>>
    /\ now = 0
    /\ it = NoIt
    /\ calls = 0
    /\ urcs = 0
    /\ rl = NoReadline
    /\ ril = NoParser
    /\ io = NoIo

\* the state after a successful _g350_startup: thread created, loop running
InitRunning ==
    /\ gs = [InitStatus EXCEPT !.thread = 1, !.talking = 1, !.running = 1]
    /\ gslot = ZeroSlot
    /\ slotlock = 1
    /\ slotdone = 0
    /\ gs_sockets = [i \in 0..(MAX_SOCKS - 1) |-> ZeroSocket]
    /\ loop = [pc |-> "top", t0 |-> 0, ss |-> 0]
    /\ client = [c \in Clients |-> IdleClient]
    /\ life = [pc |-> "idle", t0 |-> 0, err |-> "none"]
    /\ modem = <<>>
    /\ wire = <<>>
    /\ now = 0
    /\ it = NoIt
    /\ calls = 0
    /\ urcs = 0
    /\ rl = NoReadline
    /\ ril = NoParser
    /\ io = NoIo

(***************************************************************************)
(* Network status                                                          *)
(***************************************************************************)
reg_status == <<GS_REG_NOT, GS_REG_OK, GS_REG_SEARCH, GS_REG_DENIED, GS_REG_UNKNOWN, GS_REG_ROAMING>>

\* a summary that falls back to the GSM status
_gs_update_network_status_GsmFallback(g) ==
    LET tech == (IF g.gprs_status >= GS_REG_OK THEN GS_RAT_GPRS ELSE 0)
                + (IF g.gsm_status >= GS_REG_OK THEN GS_RAT_GSM ELSE 0)
    IN  [g EXCEPT !.tech = tech,
                  !.registered = IF tech >= GS_RAT_GPRS THEN g.gprs_status ELSE g.gsm_status]

\* tech as a pair of flags: GS_RAT_GPRS is bit 1, GS_RAT_GSM is bit 0
_gs_update_network_status(g) ==
    LET tech == (IF g.gprs_status >= GS_REG_OK THEN GS_RAT_GPRS ELSE 0)
                + (IF g.gsm_status >= GS_REG_OK THEN GS_RAT_GSM ELSE 0)
    IN  [g EXCEPT !.tech = tech,
                  !.registered = IF tech >= GS_RAT_GPRS THEN g.gprs_status ELSE GS_REG_NOT]

_gs_set_gsm_status_from_creg(g, b, from_urc) ==
    LET a == _gs_parse_command_arguments(b, IF from_urc THEN <<"i", "S", "S">> ELSE <<"i", "i", "S", "S">>)
        nargs == IF from_urc THEN Len(a) ELSE Len(a) - 1
        stat == IF from_urc THEN a[1] ELSE a[2]
    IN  IF nargs < 1 THEN g
        ELSE _gs_update_network_status([g EXCEPT !.gsm_status = reg_status[stat + 1]])

_gs_set_gprs_status_from_cgreg(g, b, from_urc) ==
    LET a == _gs_parse_command_arguments(b, IF from_urc THEN <<"i", "S", "S">> ELSE <<"i", "i", "S", "S">>)
        nargs == IF from_urc THEN Len(a) ELSE Len(a) - 1
        stat == IF from_urc THEN a[1] ELSE a[2]
    IN  IF nargs < 1 THEN g
        ELSE _gs_update_network_status([g EXCEPT !.gprs_status = reg_status[stat + 1]])

(***************************************************************************)
(* Sockets                                                                 *)
(***************************************************************************)
_gs_socket_new(socks, id, proto) ==
    IF socks[id].acquired = 0
    THEN [socks EXCEPT ![id] = [@ EXCEPT !.acquired = 1, !.to_be_closed = 0, !.timeout = 0, !.proto = proto]]
    ELSE socks

_gs_socket_get(socks, id) == socks[id].acquired # 0

\* a closing that wakes the waiter and leaves the flag as it is
_gs_socket_closing_NoFlag(socks, id) ==
    [socks EXCEPT ![id] = [@ EXCEPT !.rx = @ + 1]]

_gs_socket_closing(socks, id) ==
    [socks EXCEPT ![id] = [@ EXCEPT !.rx = @ + 1, !.to_be_closed = 1]]

\* _gs_socket_close: the status and the table after the entry is given back
_gs_socket_close(g, socks, id) ==
    [gs |-> [g EXCEPT !.secure_sock_id = IF @ = id THEN NULL ELSE @],
     socks |-> [socks EXCEPT ![id] = [@ EXCEPT !.rx = @ + 1, !.acquired = 0, !.to_be_closed = 1]]]

_gs_socket_pending(socks, id) ==
    [socks EXCEPT ![id] = [@ EXCEPT !.rx = @ + 1]]

(***************************************************************************)
(* _gs_handle_urc: the status and the socket table after the URC in buffer *)
(***************************************************************************)
_gs_handle_urc(g, socks, buffer, bytes, cmdid) ==
    LET p == _gs_valid_command_response(buffer, bytes, GS_GET_CMD(cmdid))
        b == SubSeq(buffer, p + 1, bytes)
        a1 == _gs_parse_command_arguments(b, <<"i">>)
        a2 == _gs_parse_command_arguments(b, <<"i", "i">>)
        same == [gs |-> g, socks |-> socks]
    IN  IF p = 0 THEN same
        ELSE IF cmdid = GS_CMD_CMTI THEN [same EXCEPT !.gs.pendingsms = @ + 1]
        ELSE IF cmdid = GS_CMD_CIEV THEN
            IF Len(a2) # 2 THEN same
            ELSE IF a2[1] = 2 THEN [same EXCEPT !.gs.rssi = a2[2]]
            ELSE IF a2[1] = 3 THEN [same EXCEPT !.gs.registered = a2[2]]
            ELSE IF a2[1] = 9 THEN [same EXCEPT !.gs.gprs = a2[2]]
            ELSE same
        ELSE IF cmdid = GS_CMD_CREG THEN [same EXCEPT !.gs = _gs_set_gsm_status_from_creg(g, b, TRUE)]
        ELSE IF cmdid = GS_CMD_CGREG THEN [same EXCEPT !.gs = _gs_set_gprs_status_from_cgreg(g, b, TRUE)]
        ELSE IF cmdid = GS_CMD_UUPSDA THEN
            IF Len(a1) < 1 THEN same
            ELSE [same EXCEPT !.gs.attached = IF a1[1] = 0 THEN 1 ELSE 0]
        ELSE IF cmdid = GS_CMD_UUSOCL THEN
            IF Len(a1) < 1 THEN same
            ELSE [gs |-> [g EXCEPT !.secure_sock_id = IF @ = a1[1] THEN NULL ELSE @],
                  socks |-> _gs_socket_closing(socks, a1[1])]
        ELSE IF cmdid \in {GS_CMD_UUSORD, GS_CMD_UUSORF} THEN
            IF Len(a2) < 2 THEN same
            ELSE [same EXCEPT !.socks = _gs_socket_pending(socks, a2[1])]
        ELSE same

(***************************************************************************)
(* Slot completion and filling                                             *)
(***************************************************************************)
\* gs.slot->err = ...; gs.slot = NULL; vosSemSignal(gs.slotdone)
_gs_slot_ok(s) == [s EXCEPT !.err = 0]

_gs_slot_error(s) == [s EXCEPT !.err = 2]

_gs_slot_timeout(s) == [s EXCEPT !.err = GS_ERR_TIMEOUT]

_gs_slot_params(s, buffer, bytes, cmd) ==
    IF s.max_size = 0 THEN s
    ELSE IF cmd.response_type = GS_RES_NO
    THEN [s EXCEPT !.resp = SubSeq(buffer, 1, MIN(s.max_size, bytes)), !.params = Uint8(@ + 1)]
    ELSE IF _gs_valid_command_response(buffer, bytes, cmd) = 0 THEN s
    ELSE LET psize == bytes - cmd.len - 2
             csize == MIN(s.max_size, psize)
         IN  [s EXCEPT !.resp = SubSeq(buffer, cmd.len + 3, cmd.len + 2 + csize),
                       !.params = Uint8(@ + 1)]

\* a deadline test that never finds the slot expired
SlotExpired_Never(s, t) == FALSE

\* the slot's deadline has passed (the test of _gs_loop on a "no line")
SlotExpired(s, t) == s.timeout # 0 /\ (t - s.stime) > s.timeout

IsUrc(cmdid) == (GS_GET_CMD(cmdid).urc \div GS_CMD_URC) % 2 = 1

\* the "+CMGL:" branch of _gs_loop: skipsms and cursms after a list entry
\* whose arguments are in the slot; the copy into gs.sms[] is left out
CmglEntry(g, s) ==
    LET a == _gs_parse_command_arguments(s.resp, <<"i", "s", "s", "s", "s">>) IN
    IF Len(a) # 5 THEN g
    ELSE LET idx == a[1]
             sta == a[2]
         IN  IF memcmp_from(s.resp, (sta.start + sta.len) - 5, StrREAD, 0, 4) # 0
             THEN [g EXCEPT !.skipsms = 1]
             ELSE IF g.cursms >= g.maxsms - 1 \/ idx < g.offsetsms
             THEN [g EXCEPT !.skipsms = 1]
             ELSE [g EXCEPT !.skipsms = 0, !.cursms = @ + 1]

(***************************************************************************)
(* The I/O loop, _gs_loop                                                  *)
(***************************************************************************)
NoChunk == [bytes |-> <<>>, tag |-> 0]

\* _gs_readline(100) on the next chunk of the wire: the number of bytes of a
\* line ended by '\n', or -1 when the 100 ms pass first (nothing, or bytes
\* with no line end, which stay in gs.buffer)
_gs_readline(chunk) ==
    IF Len(chunk.bytes) > 0 /\ chunk.bytes[Len(chunk.bytes)] = 10
    THEN Len(chunk.bytes)
    ELSE 0 - 1

NoOutcome == [prompt |-> FALSE, sig |-> "none", fill |-> NULL, urc |-> NULL, err |-> FALSE, smstxt |-> FALSE]

\* a gate that lets a '>' through for a slot of any command
PromptGate_AnySlot(buffer, bytes, hasSlot, s) ==
    /\ bytes >= 1
    /\ BufAt(buffer, 0) = 62
    /\ hasSlot

\* an OK rule without the exception of +CMGL
OkCompletes_CountOnly(s) == s.has_params = s.params

\* the test that lets a '>' switch the loop to Prompt mode
PromptGate(buffer, bytes, hasSlot, s) ==
    /\ bytes >= 1
    /\ BufAt(buffer, 0) = 62
    /\ hasSlot
    /\ (s.cmd = GS_CMD_USECMNG \/ s.cmd = GS_CMD_CMGS)

\* the test that lets an "OK" complete the slot
OkCompletes(s) ==
    IF s.has_params = s.params THEN TRUE
    ELSE s.cmd = GS_CMD_CMGL

\* what one iteration in Normal mode decides to do with the line read
LineOutcome(buffer, bytes, ret, hasSlot, s, t) ==
    IF ret <= 3 THEN
        IF PromptGate(buffer, bytes, hasSlot, s)
        THEN [NoOutcome EXCEPT !.prompt = TRUE]
        ELSE IF hasSlot /\ SlotExpired(s, t) THEN [NoOutcome EXCEPT !.sig = "timeout"]
        ELSE NoOutcome
    ELSE LET cmd == _gs_parse_command_response(buffer) IN
        IF hasSlot THEN
            IF cmd # NULL THEN
                IF cmd = s.cmd THEN
                    IF s.has_params # 0 THEN [NoOutcome EXCEPT !.fill = cmd] ELSE NoOutcome
                ELSE IF IsUrc(cmd) THEN [NoOutcome EXCEPT !.urc = cmd]
                ELSE NoOutcome
            ELSE IF _gs_check_ok(buffer, bytes) THEN
                IF OkCompletes(s) THEN [NoOutcome EXCEPT !.sig = "ok"] ELSE NoOutcome
            ELSE IF _gs_check_error(buffer, bytes) THEN [NoOutcome EXCEPT !.sig = "error", !.err = TRUE]
            ELSE IF GS_GET_CMD(s.cmd).response_type = GS_RES_NO THEN [NoOutcome EXCEPT !.fill = s.cmd]
            ELSE IF s.cmd = GS_CMD_CMGL THEN [NoOutcome EXCEPT !.smstxt = TRUE]
            ELSE NoOutcome
        ELSE IF cmd # NULL /\ IsUrc(cmd) THEN [NoOutcome EXCEPT !.urc = cmd]
        ELSE NoOutcome

SlotAfter(s, o, buffer, bytes) ==
    IF o.sig = "ok" THEN _gs_slot_ok(s)
    ELSE IF o.sig = "error" THEN _gs_slot_error(s)
    ELSE IF o.sig = "timeout" THEN _gs_slot_timeout(s)
    ELSE IF o.fill # NULL THEN _gs_slot_params(s, buffer, bytes, GS_GET_CMD(o.fill))
    ELSE s

\* the loop thread with the serial port not active: gs.running = 0, sleep
LoopIdle ==
    /\ gs.initialized = 1 /\ gs.thread = 1 /\ loop.pc = "top"
    /\ gs.talking = 0
    /\ gs' = [gs EXCEPT !.running = 0]
    /\ it' = [NoIt EXCEPT !.kind = "idle"]
    /\ UNCHANGED <<gslot, slotlock, slotdone, gs_sockets, loop, client, life, modem, wire, now, calls, urcs, rl, ril, io>>

\* the body of an iteration in Normal mode: _gs_readline and what follows
LoopBody ==
    /\ LET chunk == IF wire = <<>> THEN NoChunk ELSE Head(wire)
           buffer == chunk.bytes
           bytes == Len(buffer)
           ret == _gs_readline(chunk)
           o == LineOutcome(buffer, bytes, ret, gs.slot, gslot, now)
           s1 == SlotAfter(gslot, o, buffer, bytes)
           u == IF o.urc # NULL
                THEN _gs_handle_urc(gs, gs_sockets, buffer, bytes, o.urc)
                ELSE [gs |-> gs, socks |-> gs_sockets]
           g1 == IF o.err
                 THEN [u.gs EXCEPT !.errlen = ErrLenAfter(buffer, bytes),
                                   !.errmsg = ErrMsgAfter(buffer, bytes, @)]
                 ELSE u.gs
           g2 == IF o.fill = GS_CMD_CMGL /\ gslot.cmd = GS_CMD_CMGL THEN CmglEntry(g1, s1) ELSE g1
       IN  /\ gs' = [g2 EXCEPT !.running = 1,
                               !.mode = IF o.prompt THEN GS_MODE_PROMPT ELSE @,
                               !.slot = IF o.sig # "none" THEN FALSE ELSE @]
           /\ gslot' = s1
           /\ slotdone' = IF o.sig # "none" THEN slotdone + 1 ELSE slotdone
           /\ gs_sockets' = u.socks
           /\ wire' = IF wire = <<>> THEN wire ELSE Tail(wire)
           /\ it' = [kind |-> IF ret <= 3 THEN "noline" ELSE "line",
                     line |-> buffer, ret |-> ret,
                     preSlot |-> gs.slot, pre |-> gslot, preMode |-> gs.mode,
                     expired |-> gs.slot /\ SlotExpired(gslot, now),
                     signalled |-> o.sig,
                     filled |-> s1.params # gslot.params,
                     urc |-> o.urc, lineTag |-> chunk.tag, sockPre |-> ZeroSocket]
    /\ UNCHANGED <<slotlock, client, life, modem, now, calls, urcs, rl, ril, io>>

\* one iteration in Normal mode: read a line (or none in 100 ms) and act
LoopNormal ==
    /\ gs.initialized = 1 /\ gs.thread = 1 /\ loop.pc = "top"
    /\ gs.talking # 0
    /\ gs.mode # GS_MODE_PROMPT
    /\ LoopBody
    /\ UNCHANGED loop

\* the same iteration in two steps, for the claims about who reads the
\* serial port: gs.talking is tested and gs.running set, ...
LoopEnter ==
    /\ gs.initialized = 1 /\ gs.thread = 1 /\ loop.pc = "top"
    /\ gs.talking # 0
    /\ gs.mode # GS_MODE_PROMPT
    /\ gs' = [gs EXCEPT !.running = 1]
    /\ loop' = [pc |-> "readline", t0 |-> now, ss |-> 0]
    /\ it' = NoIt
    /\ UNCHANGED <<gslot, slotlock, slotdone, gs_sockets, client, life, modem, wire, now, calls, urcs, rl, ril, io>>

\* ... then _gs_readline(100) returns and the line is handled
LoopRead ==
    /\ loop.pc = "readline"
    /\ LoopBody
    /\ loop' = [pc |-> "top", t0 |-> 0, ss |-> 0]

\* entering the prompt branch: the loop sleeps in steps of 500 ms
LoopPromptEnter ==
    /\ gs.initialized = 1 /\ gs.thread = 1 /\ loop.pc = "top"
    /\ gs.talking # 0
    /\ gs.mode = GS_MODE_PROMPT
    /\ gs' = [gs EXCEPT !.running = 1]
    /\ loop' = [pc |-> "prompt", t0 |-> now, ss |-> 0]
    /\ it' = [NoIt EXCEPT !.kind = "prompt", !.preSlot = gs.slot, !.pre = gslot,
                          !.preMode = gs.mode, !.expired = gs.slot /\ SlotExpired(gslot, now)]
    /\ UNCHANGED <<gslot, slotlock, slotdone, gs_sockets, client, life, modem, wire, now, calls, urcs, rl, ril, io>>

\* leaving the prompt branch: the mode was set back, or 40 sleeps are over
LoopPromptExit ==
    /\ loop.pc = "prompt"
    /\ gs.mode # GS_MODE_PROMPT \/ now - loop.t0 >= PromptMs
    /\ gs' = [gs EXCEPT !.mode = GS_MODE_NORMAL]
    /\ loop' = [pc |-> "top", t0 |-> 0, ss |-> 0]
    /\ it' = [NoIt EXCEPT !.kind = "promptexit", !.preSlot = gs.slot, !.pre = gslot,
                          !.preMode = gs.mode, !.expired = gs.slot /\ SlotExpired(gslot, now)]
    /\ UNCHANGED <<gslot, slotlock, slotdone, gs_sockets, client, life, modem, wire, now, calls, urcs, rl, ril, io>>

(***************************************************************************)
(* Client operations.  Each is a sequence of exchanges on the slot:        *)
(* _gs_acquire_slot, _gs_send_at, (_gs_wait_for_slot_mode,)                *)
(* _gs_wait_for_slot, the reading of the result, _gs_release_slot.         *)
(***************************************************************************)
\* the arguments each operation passes to _gs_acquire_slot, and whether it
\* calls _gs_wait_for_slot_mode after sending
Exchange(op) ==
    CASE op = "socket_create" ->
            [cmd |-> GS_CMD_USOCR, max_size |-> 32, timeout |-> GS_TIMEOUT * 2, nparams |-> 1, prompt |-> FALSE]
      [] op = "usocr_close" ->
            [cmd |-> GS_CMD_USOCL, max_size |-> 0, timeout |-> GS_TIMEOUT * 15, nparams |-> 0, prompt |-> FALSE]
      [] op = "socket_connect" ->
            [cmd |-> GS_CMD_USOCO, max_size |-> 0, timeout |-> GS_TIMEOUT * 30, nparams |-> 0, prompt |-> FALSE]
      [] op = "attach" ->
            [cmd |-> GS_CMD_CGATT, max_size |-> 0, timeout |-> GS_TIMEOUT * 60 * 3, nparams |-> 0, prompt |-> FALSE]
      [] op = "sms_send" ->
            [cmd |-> GS_CMD_CMGS, max_size |-> 64, timeout |-> GS_TIMEOUT * 120, nparams |-> 1, prompt |-> TRUE]
      [] op = "sms_list" ->
            [cmd |-> GS_CMD_CMGL, max_size |-> 64, timeout |-> GS_TIMEOUT * 60, nparams |-> 1, prompt |-> FALSE]
      [] op = "check_network" ->
            [cmd |-> GS_CMD_CREG, max_size |-> 64, timeout |-> GS_TIMEOUT * 5, nparams |-> 1, prompt |-> FALSE]
      [] op = "gs_check_network" ->
            [cmd |-> GS_CMD_CREG, max_size |-> 64, timeout |-> GS_TIMEOUT * 5, nparams |-> 1, prompt |-> FALSE]
      [] op = "gs_check_network_cgreg" ->
            [cmd |-> GS_CMD_CGREG, max_size |-> 64, timeout |-> GS_TIMEOUT * 5, nparams |-> 1, prompt |-> FALSE]
      [] op = "socket_close" ->
            [cmd |-> GS_CMD_USOCL, max_size |-> 0, timeout |-> GS_TIMEOUT * 15, nparams |-> 0, prompt |-> FALSE]
      [] op = "recv" ->
            [cmd |-> GS_CMD_USORD, max_size |-> MAX_SOCK_HEX_RXBUF, timeout |-> GS_TIMEOUT * 10, nparams |-> 1, prompt |-> FALSE]
      [] op = "recvfrom" ->
            [cmd |-> GS_CMD_USORF, max_size |-> MAX_SOCK_HEX_RXBUF, timeout |-> GS_TIMEOUT * 10, nparams |-> 1, prompt |-> FALSE]
      [] op = "set_operator" ->
            [cmd |-> GS_CMD_COPS, max_size |-> 0, timeout |-> GS_TIMEOUT * 60, nparams |-> 0, prompt |-> FALSE]
      [] op = "send" ->
            [cmd |-> GS_CMD_USOWR, max_size |-> 16, timeout |-> GS_TIMEOUT * 10, nparams |-> 1, prompt |-> FALSE]
      [] op = "sendto" ->
            [cmd |-> GS_CMD_USOST, max_size |-> 16, timeout |-> GS_TIMEOUT * 10, nparams |-> 1, prompt |-> FALSE]
      [] op = "setsockopt" ->
            [cmd |-> GS_CMD_USOSO, max_size |-> 0, timeout |-> GS_TIMEOUT * 5, nparams |-> 0, prompt |-> FALSE]
      [] op = "tls_config" ->
            [cmd |-> GS_CMD_USECPRF, max_size |-> 0, timeout |-> GS_TIMEOUT * 5, nparams |-> 0, prompt |-> FALSE]
      [] op = "tls_set" ->
            [cmd |-> GS_CMD_USOSEC, max_size |-> 0, timeout |-> GS_TIMEOUT * 10, nparams |-> 0, prompt |-> FALSE]

\* a vosSemWait that never blocks
vosSemWait_NoBlock(sem) == TRUE

\* vosSemWait(sem) returns only when the count is positive
vosSemWait(sem) == sem > 0

_gs_acquire_slot(s, cmd_id, max_size, timeout, nparams, t) ==
    [s EXCEPT !.cmd = cmd_id, !.stime = t, !.timeout = timeout,
              !.has_params = Uint8(nparams), !.resp = <<>>, !.allocated = 1,
              !.max_size = max_size]

\* the loop is not running and no startup is under way
LoopDown == gs.running = 0 /\ gs.talking = 0 /\ life.pc = "idle"

\* the arguments of the operations called with Call: a TCP socket is
\* created, socket 0 is connected
CallArgs(op) ==
    CASE op = "socket_create" -> <<6>>
      [] op = "socket_connect" -> <<0>>
      [] OTHER -> <<>>

\* a client thread enters an operation; tag numbers the call and down notes
\* whether the loop was down at that moment (ghost fields).  connect is
\* called on socket 0, the id the modem gives to the first socket.
Call(c, op) ==
    /\ client[c].pc = "idle"
    /\ calls < MaxCalls
    /\ calls' = calls + 1
    /\ IF op = "socket_connect" /\ ~_gs_socket_get(gs_sockets, 0)
       THEN client' = [client EXCEPT ![c] = [IdleClient EXCEPT !.op = op, !.api = op,
                                                              !.args = CallArgs(op),
                                                              !.tag = calls + 1,
                                                              !.down = LoopDown,
                                                              !.res = "ERR_IOERROR_EXC"]]
       ELSE client' = [client EXCEPT ![c] = [IdleClient EXCEPT !.pc = "acquire", !.op = op,
                                                              !.api = op,
                                                              !.args = CallArgs(op),
                                                              !.tag = calls + 1,
                                                              !.down = LoopDown]]
    /\ it' = NoIt
    /\ UNCHANGED <<gs, gslot, slotlock, slotdone, gs_sockets, loop, life, modem, wire, now, urcs, rl, ril, io>>

\* _gs_acquire_slot: vosSemWait(gs.slotlock), then the slot is set up;
\* _gs_sms_list goes on to set its cursor (maxsms = 1, offset = 0)
Acquire(c) ==
    /\ client[c].pc = "acquire"
    /\ vosSemWait(slotlock)
    /\ slotlock' = slotlock - 1
    /\ LET x == Exchange(client[c].op) IN
       /\ gslot' = [_gs_acquire_slot(gslot, x.cmd, x.max_size, x.timeout, x.nparams, now)
                       EXCEPT !.tag = client[c].tag]
       /\ gs' = IF client[c].op = "sms_list"
                THEN [gs EXCEPT !.slot = TRUE, !.cursms = 0 - 1, !.skipsms = 1,
                                !.maxsms = 1, !.offsetsms = 0, !.pendingsms = 0]
                ELSE [gs EXCEPT !.slot = TRUE]
    /\ client' = [client EXCEPT ![c].pc = "send"]
    /\ it' = NoIt
    /\ UNCHANGED <<slotdone, gs_sockets, loop, life, modem, wire, now, calls, urcs, rl, ril, io>>

\* the integer arguments _gs_send_at formats after the command body
TlsConfigArgs(step) ==
    CASE step = 0 -> <<GS_TLS_PROFILE>>
      [] step = 1 -> <<GS_TLS_PROFILE, 1, 1>>
      [] step = 2 -> <<GS_TLS_PROFILE, 2, 0>>
      [] OTHER -> <<GS_TLS_PROFILE, 0, 0>>

SendArgs(cl) ==
    CASE cl.op = "socket_create" -> <<cl.args[1]>>
      [] cl.op \in {"usocr_close", "socket_close"} -> <<cl.sock>>
      [] cl.op \in {"recv", "recvfrom", "send", "sendto"} ->
            <<cl.sock, MIN(MAX_SOCK_HEX_BUF \div 4, cl.args[2] - cl.rb)>>
      [] cl.op = "setsockopt" ->
            <<cl.sock, IF cl.args[3] = 8 THEN 1 ELSE 0, cl.args[3], IF cl.args[4] # 0 THEN 1 ELSE 0>>
      [] cl.op = "tls_config" -> TlsConfigArgs(cl.step)
      [] cl.op = "tls_set" -> <<cl.sock, 1, GS_TLS_PROFILE>>
      [] OTHER -> <<>>

\* _gs_send_at: the command reaches the modem; sent lists the commands the
\* operation has written so far (ghost)
Send(c) ==
    /\ client[c].pc = "send"
    /\ LET x == [cmd |-> Exchange(client[c].op).cmd, args |-> SendArgs(client[c])] IN
       /\ modem' = Append(modem, [cmd |-> x.cmd, args |-> x.args, tag |-> client[c].tag,
                                  stage |-> "received"])
       /\ client' = [client EXCEPT ![c].pc = IF Exchange(client[c].op).prompt THEN "waitmode" ELSE "wait",
                                   ![c].t0 = now,
                                   ![c].sent = Append(@, x)]
    /\ it' = NoIt
    /\ UNCHANGED <<gs, gslot, slotlock, slotdone, gs_sockets, loop, life, wire, now, calls, urcs, rl, ril, io>>

\* _gs_wait_for_slot_mode sees Prompt mode: it writes the text, which the
\* modem takes if it is prompting, and sets the mode back to Normal
WaitModeOk(c) ==
    /\ client[c].pc = "waitmode"
    /\ gs.mode = GS_MODE_PROMPT
    /\ gs' = [gs EXCEPT !.mode = GS_MODE_NORMAL]
    /\ modem' = IF modem # <<>> /\ Head(modem).stage = "prompting"
                THEN <<[Head(modem) EXCEPT !.stage = "text"]>> \o Tail(modem)
                ELSE modem
    /\ client' = [client EXCEPT ![c].pc = "wait", ![c].ret = 0]
    /\ it' = NoIt
    /\ UNCHANGED <<gslot, slotlock, slotdone, gs_sockets, loop, life, wire, now, calls, urcs, rl, ril, io>>

\* _gs_wait_for_slot_mode gives up after 100 polls in Normal mode
WaitModeTimeout(c) ==
    /\ client[c].pc = "waitmode"
    /\ gs.mode = GS_MODE_NORMAL
    /\ now - client[c].t0 >= WaitModeMs
    /\ client' = [client EXCEPT ![c].pc = "wait", ![c].ret = 1]
    /\ it' = NoIt
    /\ UNCHANGED <<gs, gslot, slotlock, slotdone, gs_sockets, loop, life, modem, wire, now, calls, urcs, rl, ril, io>>

\* _gs_wait_for_slot: vosSemWait(gs.slotdone); the caller then reads slot->err
Wait(c) ==
    /\ client[c].pc = "wait"
    /\ vosSemWait(slotdone)
    /\ slotdone' = slotdone - 1
    /\ client' = [client EXCEPT ![c].pc = "release", ![c].err = gslot.err]
    /\ it' = NoIt
    /\ UNCHANGED <<gs, gslot, slotlock, gs_sockets, loop, life, modem, wire, now, calls, urcs, rl, ril, io>>

\* a _gs_socket_new that takes the entry whoever holds it
SocketNewNull_Never(socks, id) == FALSE

\* _gs_socket_new returns NULL: the entry is acquired already
SocketNewNull(socks, id) == socks[id].acquired # 0

\* _g350_set_operator, i being what _gs_set_operator returned, slot->err:
\* if (i == GS_TIMEOUT) return ERR_TIMEOUT_EXC; else return g350exc;
SetOperatorResult(i) == IF i = GS_TIMEOUT THEN "ERR_TIMEOUT_EXC" ELSE "g350exc"

\* while (wrt < len && err == ERR_OK) of the send loops
WriteLeft(wrt, len) == wrt < len

\* what the exchange gives, from the slot the client cl holds: the error
\* kind the native returns (res) and its integer result (ret), the socket
\* table and the status after it, the exchange the operation goes on with
\* (next, "none" when it returns), and the socket and byte count it keeps
Outcome(cl, s, g, socks) ==
    LET a == _gs_parse_command_arguments(s.resp, <<"i">>)
        none == [res |-> "ERR_OK", ret |-> 0, socks |-> socks, gs |-> g, next |-> "none",
                 sock |-> cl.sock, rb |-> cl.rb, step |-> cl.step]
        fail == [none EXCEPT !.res = "ERR_IOERROR_EXC"]
    IN  CASE cl.op = "socket_create" ->
                IF s.err # 0 THEN fail
                ELSE IF Len(a) = 1
                THEN IF SocketNewNull(socks, a[1])
                     THEN [none EXCEPT !.next = "usocr_close", !.sock = a[1]]
                     ELSE [none EXCEPT !.ret = a[1], !.sock = a[1],
                                       !.socks = _gs_socket_new(socks, a[1], cl.args[1]),
                                       !.next = IF cl.api = "secure_socket" THEN "tls_set" ELSE "none"]
                ELSE fail
          [] cl.op = "usocr_close" -> fail
          [] cl.op = "socket_connect" ->
                IF s.err # 0 THEN fail ELSE none
          [] cl.op = "attach" ->
                IF s.err # 0
                THEN IF s.err = GS_ERR_TIMEOUT THEN [none EXCEPT !.res = "ERR_TIMEOUT_EXC"]
                     ELSE [none EXCEPT !.res = "g350exc"]
                ELSE none
          [] cl.op = "sms_send" ->
                LET mr == IF s.err = 0 THEN (IF Len(a) = 1 THEN a[1] ELSE 0 - 1) ELSE cl.ret
                IN  IF mr = 0 - 1 THEN [none EXCEPT !.ret = mr]
                    ELSE IF mr < 0 THEN [none EXCEPT !.res = "g350exc", !.ret = mr]
                    ELSE [none EXCEPT !.ret = mr]
          [] cl.op = "sms_list" ->
                IF s.err # 0 THEN [none EXCEPT !.ret = 0 - 1] ELSE [none EXCEPT !.ret = g.cursms + 1]
          [] cl.op = "check_network" ->
                LET b == _gs_parse_command_arguments(s.resp, <<"i", "i">>)
                IN  IF Len(b) # 2 THEN [none EXCEPT !.ret = 0 - 1] ELSE [none EXCEPT !.ret = b[2]]
          [] cl.op = "gs_check_network" ->
                [none EXCEPT !.gs = _gs_set_gsm_status_from_creg(g, s.resp, FALSE),
                             !.next = "gs_check_network_cgreg"]
          [] cl.op = "gs_check_network_cgreg" ->
                [none EXCEPT !.gs = _gs_set_gprs_status_from_cgreg(g, s.resp, FALSE)]
          [] cl.op = "socket_close" ->
                LET x == _gs_socket_close(g, socks, cl.sock)
                IN  [none EXCEPT !.ret = cl.sock, !.gs = x.gs, !.socks = x.socks]
          [] cl.op = "recv" ->
                LET b == _gs_parse_command_arguments(s.resp, <<"i", "i">>)
                IN  IF s.err # 0
                    THEN IF cl.rb # 0 THEN [fail EXCEPT !.ret = cl.rb] ELSE [none EXCEPT !.ret = cl.rb]
                    ELSE IF Len(b) = 2
                    THEN IF b[2] # 0
                         THEN IF cl.rb + b[2] < cl.args[2]
                              THEN [none EXCEPT !.rb = cl.rb + b[2], !.next = "recv"]
                              ELSE [none EXCEPT !.rb = cl.rb + b[2], !.ret = cl.rb + b[2]]
                         ELSE [none EXCEPT !.next = "waitrx"]
                    ELSE [none EXCEPT !.ret = cl.rb]
          [] cl.op = "recvfrom" ->
                LET b == _gs_parse_command_arguments(s.resp, <<"i", "i", "s">>)
                IN  IF s.err # 0 THEN fail
                    ELSE IF Len(b) = 3
                    THEN IF b[2] # 0
                         THEN [none EXCEPT !.rb = cl.rb + b[2], !.ret = cl.rb + b[2]]
                         ELSE [none EXCEPT !.next = "waitrx"]
                    ELSE fail
          [] cl.op \in {"send", "sendto"} ->
                LET b == _gs_parse_command_arguments(s.resp, <<"i", "i">>)
                IN  IF s.err # 0 THEN [fail EXCEPT !.ret = cl.rb]
                    ELSE IF Len(b) = 2
                    THEN IF WriteLeft(cl.rb + b[2], cl.args[2])
                         THEN [none EXCEPT !.rb = cl.rb + b[2], !.next = cl.op]
                         ELSE [none EXCEPT !.rb = cl.rb + b[2], !.ret = cl.rb + b[2]]
                    ELSE [fail EXCEPT !.ret = cl.rb]
          [] cl.op = "set_operator" -> [none EXCEPT !.res = SetOperatorResult(s.err), !.ret = s.err]
          [] cl.op = "setsockopt" -> none
          [] cl.op = "tls_config" ->
                IF s.err # 0 THEN fail
                ELSE IF cl.step < 3 THEN [none EXCEPT !.next = "tls_config", !.step = cl.step + 1]
                ELSE [none EXCEPT !.next = "socket_create"]
          [] cl.op = "tls_set" ->
                IF s.err # 0 THEN [none EXCEPT !.ret = cl.sock]
                ELSE [none EXCEPT !.ret = cl.sock, !.gs = [g EXCEPT !.secure_sock_id = cl.sock]]

\* the record of a _gs_socket_new made when the result is read (history):
\* the index, the entry as it was, and whether the entry was taken
SocketNewRecord(cl, s, socks, r) ==
    IF cl.op = "socket_create" /\ s.err = 0 /\ r.res = "ERR_OK"
    THEN [NoIt EXCEPT !.kind = IF r.next = "usocr_close" THEN "collision" ELSE "created",
                      !.ret = r.sock, !.sockPre = socks[r.sock]]
    ELSE NoIt

\* a receiver that keeps the lock while it waits for data
ReleaseLock_HeldInWait(lock, next) == IF next = "waitrx" THEN lock ELSE lock + 1

\* vosSemSignal(gs.slotlock) of _gs_release_slot, whatever the caller does next
ReleaseLock(lock, next) == lock + 1

\* the result is read, then _gs_release_slot: memset, vosSemSignal(gs.slotlock);
\* the operation returns or goes on with its next exchange; a _gs_socket_new
\* or else the return of the operation is recorded (history)
Release(c) ==
    /\ client[c].pc = "release"
    /\ LET r == Outcome(client[c], gslot, gs, gs_sockets) IN
       /\ gs_sockets' = r.socks
       /\ gs' = r.gs
       /\ client' = [client EXCEPT ![c] =
                        IF r.next = "waitrx"
                        THEN [@ EXCEPT !.pc = "waitrx", !.t0 = now]
                        ELSE IF r.next # "none"
                        THEN [@ EXCEPT !.pc = "acquire", !.op = r.next, !.sock = r.sock,
                                       !.rb = r.rb, !.step = r.step]
                        ELSE [@ EXCEPT !.pc = "idle", !.res = r.res, !.ret = r.ret,
                                       !.sock = r.sock, !.rb = r.rb]]
       /\ it' = IF SocketNewRecord(client[c], gslot, gs_sockets, r) # NoIt
                THEN SocketNewRecord(client[c], gslot, gs_sockets, r)
                ELSE IF r.next = "none" THEN [NoIt EXCEPT !.kind = "returned", !.ret = c]
                ELSE NoIt
    /\ gslot' = ZeroSlot
    /\ slotlock' = ReleaseLock(slotlock, Outcome(client[c], gslot, gs, gs_sockets).next)
    /\ UNCHANGED <<slotdone, loop, life, modem, wire, now, calls, urcs, rl, ril, io>>

(***************************************************************************)
(* The modem: it answers the commands in the order received, one line at a *)
(* time and as late as it likes, and sends unsolicited lines at any time.  *)
(***************************************************************************)
ParamLine(cmdid, args) == GS_GET_CMD(cmdid).body \o ArgSep \o args \o CRLF

SmsText == <<104, 105, 13, 10>>  \* 'hi\r\n'

\* stages of a command in the modem: "received", "prompting" for the text,
\* "text" received, "info" line sent, list "entry" sent, and "answered"
\* once the final result code is sent
ErrorLine(cmdid) ==
    IF cmdid \in {GS_CMD_CMGS, GS_CMD_CMGL} THEN LineCMS
    ELSE IF cmdid \in {GS_CMD_CGATT, GS_CMD_CREG} THEN LineCME
    ELSE LineERROR

\* the lines the modem can send next for the command h, with the stage after
Replies(h) ==
    LET fail == {[bytes |-> ErrorLine(h.cmd), stage |-> "answered"]}
        ok == {[bytes |-> LineOK, stage |-> "answered"]}
    IN  IF h.stage = "received" THEN
            CASE h.cmd = GS_CMD_USOCR -> {[bytes |-> ParamLine(GS_CMD_USOCR, Args0), stage |-> "info"]} \cup fail
              [] h.cmd = GS_CMD_CREG -> {[bytes |-> ParamLine(GS_CMD_CREG, ArgsCREG), stage |-> "info"]} \cup fail
              [] h.cmd = GS_CMD_CGREG ->
                    {[bytes |-> ParamLine(GS_CMD_CGREG, a), stage |-> "info"] : a \in {ArgsCGREG0, ArgsCREG}} \cup fail
              [] h.cmd = GS_CMD_CMGL -> {[bytes |-> ParamLine(GS_CMD_CMGL, ArgsCMGL), stage |-> "entry"]} \cup ok \cup fail
              [] h.cmd = GS_CMD_CMGS -> {[bytes |-> LinePrompt, stage |-> "prompting"]} \cup fail
              [] h.cmd = GS_CMD_USORD ->
                    {[bytes |-> ParamLine(GS_CMD_USORD, a), stage |-> "info"] : a \in {ArgsUSORD0, ArgsUSORD2}} \cup fail
              [] h.cmd = GS_CMD_USORF ->
                    {[bytes |-> ParamLine(GS_CMD_USORF, a), stage |-> "info"] : a \in {ArgsUSORF0, ArgsUSORF2}} \cup fail
              [] h.cmd \in {GS_CMD_USOWR, GS_CMD_USOST} ->
                    {[bytes |-> ParamLine(h.cmd, a), stage |-> "info"] :
                        a \in {ArgsUSOWR0, ArgsUSOWR8, ArgsUSOWR32}} \cup ok \cup fail
              [] OTHER -> ok \cup fail
        ELSE IF h.stage = "prompting" THEN {}
        ELSE IF h.stage = "text" THEN {[bytes |-> ParamLine(GS_CMD_CMGS, ArgsCMGS), stage |-> "info"]} \cup fail
        ELSE IF h.stage = "info" THEN ok
        ELSE {[bytes |-> SmsText, stage |-> "info"]}

\* a modem that gives a new socket the index 0 or 1
RepliesTwoSockets(h) ==
    IF h.stage = "received" /\ h.cmd = GS_CMD_USOCR
    THEN {[bytes |-> ParamLine(GS_CMD_USOCR, a), stage |-> "info"] : a \in {Args0, Args1}}
         \cup {[bytes |-> ErrorLine(h.cmd), stage |-> "answered"]}
    ELSE Replies(h)

\* the modem sends the next line of its answer to the oldest command; two
\* tells whether it has two sockets to give
ModemAnswer(two) ==
    /\ modem # <<>>
    /\ Len(wire) < MaxWire
    /\ \E r \in (IF two THEN RepliesTwoSockets(Head(modem)) ELSE Replies(Head(modem))) :
          /\ wire' = Append(wire, [bytes |-> r.bytes, tag |-> Head(modem).tag])
          /\ modem' = IF r.stage = "answered" THEN Tail(modem)
                      ELSE <<[Head(modem) EXCEPT !.stage = r.stage]>> \o Tail(modem)
    /\ it' = NoIt
    /\ UNCHANGED <<gs, gslot, slotlock, slotdone, gs_sockets, loop, client, life, now, calls, urcs, rl, ril, io>>

ModemRespond == ModemAnswer(FALSE)

\* an unsolicited line
ModemUrc(l) ==
    /\ Len(wire) < MaxWire
    /\ urcs < MaxUrcs
    /\ urcs' = urcs + 1
    /\ wire' = Append(wire, [bytes |-> l, tag |-> 0])
    /\ it' = NoIt
    /\ UNCHANGED <<gs, gslot, slotlock, slotdone, gs_sockets, loop, client, life, modem, now, calls, rl, ril, io>>

\* time passes
Tick ==
    /\ now + TickMs <= MaxNow
    /\ now' = now + TickMs
    /\ it' = NoIt
    /\ UNCHANGED <<gs, gslot, slotlock, slotdone, gs_sockets, loop, client, life, modem, wire, calls, urcs, rl, ril, io>>

(***************************************************************************)
(* Startup and shutdown (g350_ifc.c).  Power-on, _gs_config0 and the       *)
(* shutdown commands talk to the modem with the loop idle: the model keeps *)
(* only whether the hardware answered.                                     *)
(***************************************************************************)
\* _g350_startup / _g350_shutdown: vosSemWait(gs.slotlock)
LifeLock(what) ==
    /\ life.pc = "idle"
    /\ vosSemWait(slotlock)
    /\ slotlock' = slotlock - 1
    /\ life' = [pc |-> what, t0 |-> now, err |-> "ERR_OK"]
    /\ it' = NoIt
    /\ UNCHANGED <<gs, gslot, slotdone, gs_sockets, loop, client, modem, wire, now, calls, urcs, rl, ril, io>>

StartupLock == LifeLock("su_stop")

ShutdownLock == LifeLock("sd_stop")

\* _gs_stop: gs.talking = 0, then up to 50 polls of gs.running
Stop(from, wait, done) ==
    /\ life.pc = from
    /\ IF gs.talking # 0
       THEN /\ gs' = [gs EXCEPT !.talking = 0]
            /\ life' = [life EXCEPT !.pc = wait, !.t0 = now]
       ELSE /\ gs' = gs
            /\ life' = [life EXCEPT !.pc = done,
                                    !.err = IF gs.running # 0
                                            THEN "ERR_HARDWARE_INITIALIZATION_ERROR" ELSE @]
    /\ it' = NoIt
    /\ UNCHANGED <<gslot, slotlock, slotdone, gs_sockets, loop, client, modem, wire, now, calls, urcs, rl, ril, io>>

StopWait(wait, done) ==
    /\ life.pc = wait
    /\ gs.running = 0 \/ now - life.t0 >= StopMs
    /\ life' = [life EXCEPT !.pc = done,
                            !.err = IF gs.running # 0
                                    THEN "ERR_HARDWARE_INITIALIZATION_ERROR" ELSE @]
    /\ it' = NoIt
    /\ UNCHANGED <<gs, gslot, slotlock, slotdone, gs_sockets, loop, client, modem, wire, now, calls, urcs, rl, ril, io>>

StartupStop == Stop("su_stop", "su_stopwait", "su_config")

StartupStopWait == StopWait("su_stopwait", "su_config")

ShutdownStop == Stop("sd_stop", "sd_stopwait", "sd_off")

ShutdownStopWait == StopWait("sd_stopwait", "sd_off")

\* _gs_poweron and _gs_config0 (hw: the modem answered), the creation of the
\* loop thread, the reset of the status, and the first half of _gs_start
StartupConfig ==
    /\ life.pc = "su_config"
    /\ \E hw \in BOOLEAN :
          LET ok == life.err = "ERR_OK" /\ hw
              g1 == [gs EXCEPT !.thread = IF ok THEN 1 ELSE @,
                               !.attached = 0, !.registered = 0,
                               !.gsm_status = 0, !.gprs_status = 0]
          IN  IF g1.talking = 0
              THEN /\ gs' = [g1 EXCEPT !.talking = 1]
                   /\ life' = [pc |-> "su_startwait", t0 |-> now,
                               err |-> IF ok THEN "ERR_OK" ELSE "ERR_HARDWARE_INITIALIZATION_ERROR"]
              ELSE /\ gs' = g1
                   /\ life' = [pc |-> "su_unlock", t0 |-> now,
                               err |-> IF ok /\ g1.running # 0 THEN "ERR_OK"
                                       ELSE "ERR_HARDWARE_INITIALIZATION_ERROR"]
    /\ it' = NoIt
    /\ UNCHANGED <<gslot, slotlock, slotdone, gs_sockets, loop, client, modem, wire, now, calls, urcs, rl, ril, io>>

\* the second half of _gs_start: up to 30 polls of gs.running
StartupStartWait ==
    /\ life.pc = "su_startwait"
    /\ gs.running # 0 \/ now - life.t0 >= StartMs
    /\ life' = [life EXCEPT !.pc = "su_unlock",
                            !.err = IF gs.running = 0
                                    THEN "ERR_HARDWARE_INITIALIZATION_ERROR" ELSE @]
    /\ it' = NoIt
    /\ UNCHANGED <<gs, gslot, slotlock, slotdone, gs_sockets, loop, client, modem, wire, now, calls, urcs, rl, ril, io>>

\* vosSemSignal(gs.slotlock) at the end of startup and of shutdown
LifeUnlock(from) ==
    /\ life.pc = from
    /\ slotlock' = slotlock + 1
    /\ life' = [life EXCEPT !.pc = "idle"]
    /\ it' = NoIt
    /\ UNCHANGED <<gs, gslot, slotdone, gs_sockets, loop, client, modem, wire, now, calls, urcs, rl, ril, io>>

StartupUnlock == LifeUnlock("su_unlock")

ShutdownUnlock == LifeUnlock("sd_off")


(***************************************************************************)
(* Socket operations.  args are the arguments of the native: the protocol  *)
(* for a create, the socket for the others, followed by the length for a   *)
(* receive and by level, option and value for a set-option.                *)
(***************************************************************************)
\* ssock->timeout = optvalue: the field is a uint16_t, optvalue an int32_t
StoredTimeout(optvalue) == optvalue % 65536

\* timeout = ssock->timeout ? ssock->timeout : -1, and _gs_socket_wait_rx
\* waits VTIME_INFINITE for it: a stored 0 is a wait without end
WaitsForever(timeout) == timeout = 0

\* what the native does before its first exchange: the error it returns at
\* once (res), or the exchange it starts with (next), or neither when it
\* has nothing to send; the socket table and the status after that
OperationEntry(api, args, g, socks) ==
    LET none == [res |-> "ERR_OK", next |-> "none", socks |-> socks, gs |-> g]
        fail == [none EXCEPT !.res = "ERR_IOERROR_EXC"]
        sk == socks[args[1]]
    IN  CASE api \in {"socket_create", "attach"} -> [none EXCEPT !.next = api]
          [] api = "secure_socket" ->
                IF g.secure_sock_id >= 0 THEN fail ELSE [none EXCEPT !.next = "tls_config"]
          [] api = "socket_close" ->
                IF ~_gs_socket_get(socks, args[1]) THEN fail
                ELSE IF sk.to_be_closed = 0 THEN [none EXCEPT !.next = "socket_close"]
                ELSE LET x == _gs_socket_close(g, socks, args[1])
                     IN  [none EXCEPT !.gs = x.gs, !.socks = x.socks]
          [] api = "recv" ->
                IF ~_gs_socket_get(socks, args[1]) \/ sk.to_be_closed # 0 THEN fail
                ELSE IF 0 < args[2] THEN [none EXCEPT !.next = "recv"]
                ELSE none
          [] api = "recvfrom" ->
                IF ~_gs_socket_get(socks, args[1]) \/ sk.to_be_closed # 0 \/ sk.proto # 17
                THEN fail
                ELSE [none EXCEPT !.next = "recvfrom"]
          [] api = "send" ->
                IF ~_gs_socket_get(socks, args[1]) \/ sk.to_be_closed # 0 THEN fail
                ELSE IF 0 < args[2] THEN [none EXCEPT !.next = "send"]
                ELSE none
          [] api = "sendto" ->
                IF ~_gs_socket_get(socks, args[1]) \/ sk.to_be_closed # 0 \/ sk.proto # 17
                THEN fail
                ELSE IF 0 < args[2] THEN [none EXCEPT !.next = "sendto"]
                ELSE none
          [] api = "setsockopt" ->
                IF ~_gs_socket_get(socks, args[1]) \/ sk.to_be_closed # 0 THEN none
                ELSE IF args[2] = 65535 /\ args[3] = 1
                THEN [none EXCEPT !.socks = [socks EXCEPT ![args[1]].timeout = StoredTimeout(args[4])]]
                ELSE IF args[3] = 8 THEN [none EXCEPT !.next = "setsockopt"]
                ELSE none

\* a client thread enters a socket operation; the call and the entry of its
\* socket at that moment are recorded (history)
CallSocket(c, api, args) ==
    /\ client[c].pc = "idle"
    /\ calls < MaxSockCalls
    /\ calls' = calls + 1
    /\ LET e == OperationEntry(api, args, gs, gs_sockets)
           cl == [IdleClient EXCEPT !.api = api, !.op = api, !.args = args, !.tag = calls + 1,
                                    !.down = LoopDown,
                                    !.sock = IF api \in {"socket_create", "secure_socket"}
                                             THEN 0
                                             ELSE IF api = "attach" THEN 0 ELSE args[1],
                                    !.timeout = IF api \in {"recv", "recvfrom"}
                                                THEN gs_sockets[args[1]].timeout ELSE 0]
       IN  /\ client' = [client EXCEPT ![c] =
                            IF e.next = "none" THEN [cl EXCEPT !.res = e.res]
                            ELSE [cl EXCEPT !.pc = "acquire", !.op = e.next]]
           /\ gs' = e.gs
           /\ gs_sockets' = e.socks
    /\ it' = [NoIt EXCEPT !.kind = "called", !.ret = c,
                          !.sockPre = IF api \in {"socket_create", "secure_socket", "attach"}
                                      THEN ZeroSocket ELSE gs_sockets[args[1]]]
    /\ UNCHANGED <<gslot, slotlock, slotdone, loop, life, modem, wire, now, urcs, rl, ril, io>>

\* _g350_socket_recvfrom_into after the wait: `if (ssock->to_be_closed)
\* len = rb;`, args[2] being len, and the loop `while (!rb && err == ERR_OK)`
\* goes round again, rb being 0
AfterWaitRx_from(cl, sk) ==
    IF sk.to_be_closed # 0 THEN [cl EXCEPT !.pc = "acquire", !.args[2] = cl.rb]
    ELSE [cl EXCEPT !.pc = "acquire"]

\* how a receive goes on after _gs_socket_wait_rx: a stream receive returns
\* the bytes read when the wait timed out or the socket is to be closed and
\* reads again otherwise; a datagram receive returns when the wait timed
\* out and reads again otherwise
AfterWaitRx(cl, sk, timedout) ==
    IF cl.op = "recv"
    THEN IF timedout THEN [cl EXCEPT !.pc = "idle", !.res = "ERR_TIMEOUT_EXC", !.ret = cl.rb]
         ELSE IF sk.to_be_closed # 0 THEN [cl EXCEPT !.pc = "idle", !.res = "ERR_OK", !.ret = cl.rb]
         ELSE [cl EXCEPT !.pc = "acquire"]
    ELSE IF timedout THEN [cl EXCEPT !.pc = "idle", !.res = "ERR_TIMEOUT_EXC", !.ret = cl.rb]
         ELSE AfterWaitRx_from(cl, sk)

\* _gs_socket_wait_rx returns on a signal of the socket's rx semaphore; the
\* wake-up and the entry as the receiver finds it are recorded (history)
WaitRx(c) ==
    /\ client[c].pc = "waitrx"
    /\ vosSemWait(gs_sockets[client[c].sock].rx)
    /\ gs_sockets' = [gs_sockets EXCEPT ![client[c].sock].rx = @ - 1]
    /\ client' = [client EXCEPT ![c] = AfterWaitRx(@, gs_sockets[client[c].sock], FALSE)]
    /\ it' = [NoIt EXCEPT !.kind = "woken", !.ret = c, !.sockPre = gs_sockets[client[c].sock]]
    /\ UNCHANGED <<gs, gslot, slotlock, slotdone, loop, life, modem, wire, now, calls, urcs, rl, ril, io>>

\* _gs_socket_wait_rx returns VRES_TIMEOUT: the socket has a receive
\* timeout and it has passed with no signal
WaitRxTimeout(c) ==
    /\ client[c].pc = "waitrx"
    /\ ~WaitsForever(client[c].timeout)
    /\ gs_sockets[client[c].sock].rx = 0
    /\ now - client[c].t0 >= client[c].timeout
    /\ client' = [client EXCEPT ![c] = AfterWaitRx(@, gs_sockets[client[c].sock], TRUE)]
    /\ it' = NoIt
    /\ UNCHANGED <<gs, gslot, slotlock, slotdone, gs_sockets, loop, life, modem, wire, now, calls, urcs, rl, ril, io>>

(***************************************************************************)
(* _gs_readline, byte by byte.  Only the line feed matters to it: a line   *)
(* is given by its length.  gs.buffer has MAX_CMD bytes and the loop of    *)
(* _gs_readline stops at MAX_BUF - 1; a write past the end of gs.buffer    *)
(* goes into the fields of gs that follow it (lac, ci, bsic, ..., sms) and *)
(* beyond: after it the thread goes on, or anything happens ("undefined"). *)
(***************************************************************************)
\* lengths of the lines the modem sends, line end included
LineLengths == {4, MAX_CMD - 1, MAX_CMD, MAX_BUF + 4}

MaxLines == 2

\* the positions of the thread after a write to gs.buffer[i]
AfterWrite(i, pc) == IF i < MAX_CMD THEN {pc} ELSE {pc, "undefined"}

\* the modem sends a line of n bytes
ModemLine(n) ==
    /\ rl.pc = "idle" /\ rl.rest = 0
    /\ rl.lines < MaxLines
    /\ rl' = [rl EXCEPT !.rest = n, !.lines = @ + 1]
    /\ UNCHANGED <<gs, gslot, slotlock, slotdone, gs_sockets, loop, client, life, modem, wire, now, it, calls, urcs, ril, io>>

\* gs.bytes = 0; memset(gs.buffer, 0, 16)
ReadlineEnter ==
    /\ rl.pc = "idle"
    /\ rl' = [rl EXCEPT !.pc = "reading", !.bytes = 0, !.top = 15]
    /\ UNCHANGED <<gs, gslot, slotlock, slotdone, gs_sockets, loop, client, life, modem, wire, now, it, calls, urcs, ril, io>>

\* while (gs.bytes < MAX_BUF - 1): a byte is available, it is stored at
\* gs.buffer[gs.bytes] and counted; the line feed ends the loop
ReadlineByte ==
    /\ rl.pc = "reading"
    /\ rl.bytes < MAX_BUF - 1
    /\ rl.rest > 0
    /\ \E pc \in AfterWrite(rl.bytes, IF rl.rest = 1 THEN "terminate" ELSE "reading") :
          rl' = [rl EXCEPT !.pc = pc, !.bytes = @ + 1, !.rest = @ - 1,
                           !.top = IF rl.bytes > @ THEN rl.bytes ELSE @]
    /\ UNCHANGED <<gs, gslot, slotlock, slotdone, gs_sockets, loop, client, life, modem, wire, now, it, calls, urcs, ril, io>>

\* the loop ends with gs.bytes = MAX_BUF - 1
ReadlineFull ==
    /\ rl.pc = "reading"
    /\ rl.bytes >= MAX_BUF - 1
    /\ rl' = [rl EXCEPT !.pc = "terminate"]
    /\ UNCHANGED <<gs, gslot, slotlock, slotdone, gs_sockets, loop, client, life, modem, wire, now, it, calls, urcs, ril, io>>

\* nothing available and the timeout over: *buf = 0; return -1
ReadlineTimeout ==
    /\ rl.pc = "reading"
    /\ rl.bytes < MAX_BUF - 1
    /\ rl.rest = 0
    /\ \E pc \in AfterWrite(rl.bytes, "idle") :
          rl' = [rl EXCEPT !.pc = pc, !.ret = 0 - 1, !.top = IF rl.bytes > @ THEN rl.bytes ELSE @]
    /\ UNCHANGED <<gs, gslot, slotlock, slotdone, gs_sockets, loop, client, life, modem, wire, now, it, calls, urcs, ril, io>>

\* after the loop: *buf = 0; return gs.bytes
ReadlineReturn ==
    /\ rl.pc = "terminate"
    /\ \E pc \in AfterWrite(rl.bytes, "idle") :
          rl' = [rl EXCEPT !.pc = pc, !.ret = rl.bytes, !.top = IF rl.bytes > @ THEN rl.bytes ELSE @]
    /\ UNCHANGED <<gs, gslot, slotlock, slotdone, gs_sockets, loop, client, life, modem, wire, now, it, calls, urcs, ril, io>>

LineNext ==
    \/ \E n \in LineLengths : ModemLine(n)
    \/ ReadlineEnter
    \/ ReadlineByte
    \/ ReadlineFull
    \/ ReadlineTimeout
    \/ ReadlineReturn

SpecLine == InitRunning /\ [][LineNext]_vars

(***************************************************************************)
(* The response parser of libril (rsp.c): the cursor of ril_state_t.       *)
(***************************************************************************)
RIL_ERR_RSP_READ_OVERFLOW == 3

RIL_ERR_RSP_READ_UNDERFLOW == 4

RIL_ERR_RSP_READ_TIMEOUT == 5

RIL_ERR_RSP_CHAR == 6

\* what st->read returns: a byte, here 0x00, 'A' or 'B', or -1 on a read
\* error, or -2 on a timeout
ReadOutcomes == {0, 65, 66, 0 - 1, 0 - 2}

\* the characters looked for
MatchChars == {65, 66}

\* a <= b for size_t values kept as signed 32-bit patterns
SizeLe(a, b) == IF (a < 0) = (b < 0) THEN a <= b ELSE b < 0

\* _read; r is what st->read returns if it is called
_read(s, r) ==
    IF s.count = s.buf_max
    THEN [st |-> [s EXCEPT !.error = 0 - RIL_ERR_RSP_READ_OVERFLOW], c |-> 0]
    ELSE IF 0 <= r /\ r <= 255
    THEN [st |-> [s EXCEPT !.buf = Append(@, r), !.count = @ + 1, !.timeout = 0], c |-> r]
    ELSE IF r = 0 - 2
    THEN [st |-> [s EXCEPT !.error = 0 - RIL_ERR_RSP_READ_TIMEOUT], c |-> 0]
    ELSE [st |-> s, c |-> 0]

_get(s, r) ==
    IF s.index = s.buf_max
    THEN [st |-> [s EXCEPT !.error = 0 - RIL_ERR_RSP_READ_UNDERFLOW], c |-> 0]
    ELSE LET x == IF s.index = s.count THEN _read(s, r)
                  ELSE [st |-> s, c |-> s.buf[s.index + 1]]
         IN  [st |-> IF x.c # 0 THEN [x.st EXCEPT !.index = @ + 1] ELSE x.st, c |-> x.c]

ril_rsp_match_char(s, c, r) ==
    LET g == _get(s, r) IN
    IF g.c = c THEN g.st
    ELSE IF g.st.error = 0 THEN [g.st EXCEPT !.index = @ - 1]
    ELSE g.st

\* a rollback that throws the buffer away
ril_rsp_res_abort_Drop(s, error) == [s EXCEPT !.error = error, !.index = 0, !.count = 0, !.buf = <<>>]

ril_rsp_res_abort(s, error) == [s EXCEPT !.error = error, !.index = 0]

\* the bytes from index to count are copied to the start of the buffer
ril_rsp_res_ok(s) ==
    [s EXCEPT !.buf = SubSeq(@, s.index + 1, s.count), !.count = @ - s.index, !.index = 0]

_clear(s) == [s EXCEPT !.error = 0, !.count = 0, !.index = 0, !.buf = <<>>]

\* the state an operation leaves, with the operation and what it found
Parsed(op, s) ==
    [s EXCEPT !.last = [op |-> op, index |-> ril.index, count |-> ril.count, buf |-> ril.buf]]

\* the cursor is inside the buffer: with index past count the parser reads
\* buf[index] outside the valid bytes, and what it does is not defined
CursorValid == SizeLe(0, ril.index) /\ SizeLe(ril.index, ril.count) /\ SizeLe(ril.count, ril.buf_max)

RilMatchChar(c, r) ==
    /\ CursorValid
    /\ ril' = Parsed("match_char", ril_rsp_match_char(ril, c, r))
    /\ UNCHANGED <<gs, gslot, slotlock, slotdone, gs_sockets, loop, client, life, modem, wire, now, it, calls, urcs, rl, io>>

\* ril_rsp_char: ril_rsp_res(st, ril_rsp_match_char(st, c), -RIL_ERR_RSP_CHAR)
RilChar(c, r) ==
    /\ CursorValid
    /\ ril.error = 0
    /\ LET g == _get(ril, r)
           m == ril_rsp_match_char(ril, c, r)
       IN  ril' = Parsed("char", IF g.c = c THEN ril_rsp_res_ok(m)
                                 ELSE ril_rsp_res_abort(m, 0 - RIL_ERR_RSP_CHAR))
    /\ UNCHANGED <<gs, gslot, slotlock, slotdone, gs_sockets, loop, client, life, modem, wire, now, it, calls, urcs, rl, io>>

RilResOk ==
    /\ CursorValid
    /\ ril' = Parsed("res_ok", ril_rsp_res_ok(ril))
    /\ UNCHANGED <<gs, gslot, slotlock, slotdone, gs_sockets, loop, client, life, modem, wire, now, it, calls, urcs, rl, io>>

\* what a call took from the input in, of which rest is left
Taken(in, rest) == SubSeq(in, 1, Len(in) - Len(rest))

\* what is left to read after the loop of ril_rsp_flush, which reads until
\* the read callback returns a negative value
RECURSIVE Flushed(_)
Flushed(in) == IF in = <<>> THEN <<>> ELSE IF Head(in) < 0 THEN Tail(in) ELSE Flushed(Tail(in))

\* ril_rsp_flush: _clear, then the input is read until it is empty
RilFlush ==
    /\ ril' = Parsed("flush", _clear(ril))
    /\ io' = [io EXCEPT !.in = Flushed(io.in), !.pre = io.in, !.preError = ril.error,
                        !.read = Taken(io.in, Flushed(io.in))]
    /\ UNCHANGED <<gs, gslot, slotlock, slotdone, gs_sockets, loop, client, life, modem, wire, now, it, calls, urcs, rl>>

RilNext ==
    \/ \E c \in MatchChars : \E r \in ReadOutcomes : RilMatchChar(c, r)
    \/ \E c \in MatchChars : \E r \in ReadOutcomes : RilChar(c, r)
    \/ RilResOk
    \/ RilFlush

SpecRil == InitRunning /\ [][RilNext]_vars

(***************************************************************************)
(* The matchers of rsp.c over the transport.  A parse p is a record with   *)
(* st, the ril_state_t, and in, what the read callback will return; a      *)
(* matcher gives the parse it leaves, with n the value it returns, c the   *)
(* character _get returned, v the integer a query matched, val the value   *)
(* stored for the caller, cm the value stored in st->cm_err and to whether    *)
(* a read timed out.                                                       *)
(***************************************************************************)
RIL_ERR_RSP_ECHO == 8

RIL_ERR_RSP_EOL == 9

RIL_ERR_RSP_FINAL_ABORT == 10

RIL_ERR_RSP_FINAL_CME == 11

RIL_ERR_RSP_FINAL_CMS == 12

RIL_ERR_RSP_FINAL_ERROR == 13

RIL_ERR_RSP_FINAL_UNKNOWN == 14

RIL_ERR_RSP_HEX == 15

RIL_ERR_RSP_INT == 16

RIL_ERR_RSP_LINE == 17

RIL_ERR_RSP_LINE_DUMP == 18

RIL_ERR_RSP_QUERY == 19

RIL_ERR_RSP_STR == 20

RIL_ERR_RSP_STRA_NONE == 21

RIL_ERR_RSP_STRA_OVERFLOW == 22

RIL_ERR_RSP_STRA_UNDERFLOW == 23

RIL_ERR_RSP_STRQQE_BEGIN == 25

RIL_ERR_RSP_STRQQE_END == 26

RIL_ERR_RSP_UINT == 28

RIL_RT_10ms == 10

\* what the read callback returns next: it times out when nothing is left
NextRead(in) == IF in = <<>> THEN 0 - 2 ELSE Head(in)

\* _get calls _read and _read calls the read callback
ReadsTransport(s) == s.index # s.buf_max /\ s.index = s.count /\ s.count # s.buf_max

\* the read callback is called and reports a timeout
ReadTimesOut(p) == ReadsTransport(p.st) /\ NextRead(p.in) = 0 - 2

AfterRead(p) == IF ReadsTransport(p.st) /\ p.in # <<>> THEN Tail(p.in) ELSE p.in

Got(p, g) ==
    [p EXCEPT !.st = g.st, !.in = AfterRead(p), !.c = g.c, !.to = @ \/ ReadTimesOut(p)]

Get(p) == Got(p, _get(p.st, NextRead(p.in)))

CharMatched(p, s, hit) ==
    [p EXCEPT !.st = s, !.in = AfterRead(p), !.n = IF hit THEN 1 ELSE 0,
              !.to = @ \/ ReadTimesOut(p)]

\* ril_rsp_match_char on the transport
MatchChar(p, c) ==
    CharMatched(p, ril_rsp_match_char(p.st, c, NextRead(p.in)), _get(p.st, NextRead(p.in)).c = c)

\* the pattern syntax of ril_rsp_match_charp: a leading '^' negates, a '-'
\* between two characters matches what is strictly between them, and every
\* character of the pattern, the '-' included, matches itself
PatternMatches(pattern, c) ==
    LET neg == Len(pattern) >= 2 /\ pattern[1] = 94
        pat == IF neg THEN Tail(pattern) ELSE pattern
        hit == \E i \in 1..Len(pat) :
                  \/ /\ pat[i] = 45
                     /\ i > 1 /\ i < Len(pat)
                     /\ pat[i + 1] > c /\ c > pat[i - 1]
                  \/ c = pat[i]
    IN  hit # neg

CharpMatched(g, pattern) ==
    IF g.c = 0 THEN [g EXCEPT !.n = 0]
    ELSE IF PatternMatches(pattern, g.c) THEN [g EXCEPT !.n = 1]
    ELSE [g EXCEPT !.st.index = @ - 1, !.n = 0]

ril_rsp_match_charp(p, pattern) == CharpMatched(Get(p), pattern)

\* ril_rsp_match_strpn with n = -1: as many characters as match
RECURSIVE MatchStrp(_, _, _)
RECURSIVE StrpNext(_, _, _)
StrpNext(m, pattern, count) ==
    IF m.n = 0 THEN [m EXCEPT !.n = count] ELSE MatchStrp(m, pattern, count + 1)

MatchStrp(p, pattern, count) == StrpNext(ril_rsp_match_charp(p, pattern), pattern, count)

ril_rsp_match_strp(p, pattern) == MatchStrp(p, pattern, 0)

RECURSIVE MatchStr(_, _, _)
RECURSIVE StrNext(_, _, _)
StrNext(m, str, index) ==
    IF m.n = 0 THEN [m EXCEPT !.st.index = index] ELSE MatchStr(m, Tail(str), index)

MatchStr(p, str, index) ==
    IF str = <<>> THEN [p EXCEPT !.n = p.st.index - index]
    ELSE StrNext(MatchChar(p, Head(str)), str, index)

ril_rsp_match_str(p, str) == MatchStr(p, str, p.st.index)

ril_rsp_match_eol(p) == ril_rsp_match_str(p, <<13, 10>>)

\* the second of two matches in a row, count being what the first returned
Added(count, b) == IF b.n = 0 THEN b ELSE [b EXCEPT !.n = @ + count]

LineEol(a) == IF a.n = 0 THEN a ELSE Added(a.n, ril_rsp_match_eol(a))

ril_rsp_match_line(p, str) == LineEol(ril_rsp_match_str(p, str))

IntMatched(index, b) ==
    IF b.n = 0 THEN [b EXCEPT !.st.index = index] ELSE [b EXCEPT !.n = b.st.index - index]

IntDigits(index, a) == IntMatched(index, ril_rsp_match_strp(a, <<48, 45, 57>>))

ril_rsp_match_int(p) == IntDigits(p.st.index, ril_rsp_match_charp(p, <<43, 45>>))

ril_rsp_match_uint(p) == ril_rsp_match_strp(p, <<48, 45, 57>>)

ril_rsp_match_hex(p) == ril_rsp_match_strp(p, <<65, 45, 70, 97, 45, 102, 48, 45, 57>>)

\* _buf2int: the value of the digits at the start of buf, n of them at most
\* (n = 0 - 1: as many as there are)
Digit(c, base) ==
    IF 48 <= c /\ c <= 57 THEN c - 48
    ELSE IF base = 10 THEN 0 - 1
    ELSE IF 65 <= c /\ c <= 70 THEN c - 55
    ELSE IF 97 <= c /\ c <= 102 THEN c - 87
    ELSE 0 - 1

RECURSIVE Digits(_, _, _, _)
Digits(buf, n, base, v) ==
    IF n = 0 \/ buf = <<>> \/ Digit(Head(buf), base) < 0 THEN v
    ELSE Digits(Tail(buf), n - 1, base, v * base + Digit(Head(buf), base))

_buf2int(buf, n, base) ==
    IF buf # <<>> /\ Head(buf) = 45 THEN 0 - Digits(Tail(buf), n - 1, base, 0)
    ELSE IF buf # <<>> /\ Head(buf) = 43 THEN Digits(Tail(buf), n - 1, base, 0)
    ELSE Digits(buf, n, base, 0)

\* the bytes of the buffer from the position i on
BufFrom(s, i) == IF i < Len(s.buf) THEN SubSeq(s.buf, i + 1, Len(s.buf)) ELSE <<>>

\* ril_rsp_match_query: str, ': ' and an integer; the value is read at the
\* position count of the buffer, the number of bytes str and ': ' matched
QueryValue(count, c) ==
    IF c.n = 0 THEN c
    ELSE [c EXCEPT !.n = @ + count, !.v = _buf2int(BufFrom(c.st, count), 0 - 1, 10)]

QueryInt(count, b) == IF b.n = 0 THEN b ELSE QueryValue(count + b.n, ril_rsp_match_int(b))

QuerySep(a) == IF a.n = 0 THEN a ELSE QueryInt(a.n, ril_rsp_match_str(a, <<58, 32>>))

ril_rsp_match_query(p, str) == QuerySep(ril_rsp_match_str(p, str))

ril_rsp_match_line_query(p, str) == LineEol(ril_rsp_match_query(p, str))

\* ril_rsp_res: commit when the match returned a count, else roll back
ril_rsp_res(m, error) ==
    IF m.n # 0 THEN [m EXCEPT !.st = ril_rsp_res_ok(m.st), !.n = m.st.index]
    ELSE [m EXCEPT !.st = ril_rsp_res_abort(m.st, error)]

Skipped(p) == [p EXCEPT !.n = 0]

ril_rsp_str(p, str) ==
    IF p.st.error # 0 THEN Skipped(p)
    ELSE ril_rsp_res(ril_rsp_match_str(p, str), 0 - RIL_ERR_RSP_STR)

ril_rsp_eol(p) ==
    IF p.st.error # 0 THEN Skipped(p)
    ELSE ril_rsp_res(ril_rsp_match_eol(p), 0 - RIL_ERR_RSP_EOL)

ril_rsp_line(p, str) ==
    IF p.st.error # 0 THEN Skipped(p)
    ELSE ril_rsp_res(ril_rsp_match_line(p, str), 0 - RIL_ERR_RSP_LINE)

\* the end of ril_rsp_int, ril_rsp_uint and ril_rsp_hex: the value is read
\* from the first index bytes of the buffer
NumberRes(m, base, error) ==
    IF m.n = 0 THEN [m EXCEPT !.st = ril_rsp_res_abort(m.st, error)]
    ELSE [m EXCEPT !.st = ril_rsp_res_ok(m.st), !.n = m.st.index,
                   !.val = _buf2int(m.st.buf, m.st.index, base)]

ril_rsp_int(p) ==
    IF p.st.error # 0 THEN Skipped(p)
    ELSE NumberRes(ril_rsp_match_int(p), 10, 0 - RIL_ERR_RSP_INT)

ril_rsp_uint(p) ==
    IF p.st.error # 0 THEN Skipped(p)
    ELSE NumberRes(ril_rsp_match_uint(p), 10, 0 - RIL_ERR_RSP_UINT)

ril_rsp_hex(p) ==
    IF p.st.error # 0 THEN Skipped(p)
    ELSE NumberRes(ril_rsp_match_hex(p), 16, 0 - RIL_ERR_RSP_HEX)

QueryRes(m) == [ril_rsp_res(m, 0 - RIL_ERR_RSP_QUERY) EXCEPT !.val = IF m.n # 0 THEN m.v ELSE @]

ril_rsp_query(p, str) ==
    IF p.st.error # 0 THEN Skipped(p) ELSE QueryRes(ril_rsp_match_query(p, str))

\* ril_rsp_seek_char: bytes are taken until c or until none comes, and the
\* cursor is then moved back by one
RECURSIVE ril_rsp_seek_char(_, _)
RECURSIVE SeekNext(_, _)
SeekNext(g, c) ==
    IF g.c # 0 /\ g.c # c THEN ril_rsp_seek_char(g, c) ELSE [g EXCEPT !.st.index = @ - 1]

ril_rsp_seek_char(p, c) == SeekNext(Get(p), c)

\* the loop of ril_rsp_line_dump; i is the cursor before the last round
RECURSIVE LineDumpLoop(_, _)
RECURSIVE LineDumpEol(_, _)
LineDumpEol(e, i) ==
    IF e.n # 0 THEN [e EXCEPT !.st = ril_rsp_res_ok(e.st), !.n = e.st.index]
    ELSE LineDumpLoop(e, i)

LineDumpLoop(p, i) ==
    IF i = p.st.index
    THEN [p EXCEPT !.st = ril_rsp_res_abort(p.st, 0 - RIL_ERR_RSP_LINE_DUMP), !.n = 0]
    ELSE LineDumpEol(ril_rsp_match_eol(ril_rsp_seek_char(p, 13)), p.st.index)

ril_rsp_line_dump(p) ==
    IF p.st.error # 0 THEN Skipped(p) ELSE LineDumpLoop(p, 0 - 1)

StrAT == <<65, 84>>

WithTimeout(r, timeout) == [r EXCEPT !.st.timeout = timeout]

EchoDump(a, timeout) ==
    IF a.n # 0 THEN WithTimeout(ril_rsp_line_dump(a), timeout)
    ELSE [a EXCEPT !.st = ril_rsp_res_abort(a.st, 0 - RIL_ERR_RSP_ECHO)]

EchoAt(e, timeout) ==
    IF e.n # 0 THEN WithTimeout([e EXCEPT !.st = ril_rsp_res_ok(e.st), !.n = e.st.index], timeout)
    ELSE EchoDump(ril_rsp_match_str(e, StrAT), timeout)

ril_rsp_echo(p, timeout) ==
    IF p.st.error # 0 THEN Skipped(p)
    ELSE EchoAt(ril_rsp_match_eol([p EXCEPT !.st = [_clear(p.st) EXCEPT !.timeout = RIL_RT_10ms]]),
                timeout)

StrOK == <<79, 75>>

StrABORT == <<65, 66, 79, 82, 84>>

StrCMEERROR == <<43, 67, 77, 69, 32, 69, 82, 82, 79, 82>>

StrCMSERROR == <<43, 67, 77, 83, 32, 69, 82, 82, 79, 82>>

\* the end of ril_rsp_final when a line matched: the error is set and the
\* line is consumed
FinalDone(m, error) ==
    [m EXCEPT !.st = ril_rsp_res_ok(IF error = 0 THEN m.st ELSE [m.st EXCEPT !.error = error]),
              !.n = m.st.index]

\* ril_rsp_final: the alternatives are tried one after the other, each on
\* the state the one before left
FinalCms(ms) ==
    IF ms.n # 0 THEN FinalDone([ms EXCEPT !.cm = ms.v], 0 - RIL_ERR_RSP_FINAL_CMS)
    ELSE [ms EXCEPT !.st = ril_rsp_res_abort(ms.st, 0 - RIL_ERR_RSP_FINAL_UNKNOWN)]

FinalCme(me) ==
    IF me.n # 0 THEN FinalDone([me EXCEPT !.cm = me.v], 0 - RIL_ERR_RSP_FINAL_CME)
    ELSE FinalCms(ril_rsp_match_line_query(me, StrCMSERROR))

FinalAbort(ab) ==
    IF ab.n # 0 THEN FinalDone(ab, 0 - RIL_ERR_RSP_FINAL_ABORT)
    ELSE FinalCme(ril_rsp_match_line_query(ab, StrCMEERROR))

FinalError(er) ==
    IF er.n # 0 THEN FinalDone(er, 0 - RIL_ERR_RSP_FINAL_ERROR)
    ELSE FinalAbort(ril_rsp_match_line(er, StrABORT))

FinalOk(ok) ==
    IF ok.n # 0 THEN FinalDone(ok, 0) ELSE FinalError(ril_rsp_match_line(ok, StrERROR))

ril_rsp_final(p) ==
    IF p.st.error # 0 THEN Skipped(p) ELSE FinalOk(ril_rsp_match_line(p, StrOK))

\* the loop of ril_rsp_strqqe: characters other than quote_end are taken,
\* and when the last of them is the escape the next byte is taken too
RECURSIVE StrqqeLoop(_, _, _)
RECURSIVE StrqqeNext(_, _, _)
StrqqeNext(m, quote_end, escape) ==
    IF m.n # 0 /\ m.st.buf[m.st.index] = escape THEN StrqqeLoop(Get(m), quote_end, escape)
    ELSE m

StrqqeLoop(p, quote_end, escape) ==
    StrqqeNext(ril_rsp_match_strp(p, <<94, quote_end>>), quote_end, escape)

\* the end of ril_rsp_strqqe; str is what memcpy stores: the index - 2
\* bytes of the buffer after the first
StrqqeEnd(e) ==
    IF e.n = 0 THEN [e EXCEPT !.st = ril_rsp_res_abort(e.st, 0 - RIL_ERR_RSP_STRQQE_END)]
    ELSE [e EXCEPT !.st = ril_rsp_res_ok(e.st), !.n = e.st.index,
                   !.str = SubSeq(e.st.buf, 2, e.st.index - 1)]

StrqqeBegin(b, quote_end, escape) ==
    IF b.n = 0 THEN [b EXCEPT !.st = ril_rsp_res_abort(b.st, 0 - RIL_ERR_RSP_STRQQE_BEGIN)]
    ELSE StrqqeEnd(MatchChar(StrqqeLoop(b, quote_end, escape), quote_end))

\* ril_rsp_strqqe with both quotes given
ril_rsp_strqqe(p, quote_begin, quote_end, escape) ==
    IF p.st.error # 0 THEN Skipped(p)
    ELSE StrqqeBegin(MatchChar(p, quote_begin), quote_end, escape)

(***************************************************************************)
(* The command writer of libril (cmd.c).  A writer w is the record         *)
(* [error, out, room]: st->error, the bytes the write callback accepted in *)
(* the call, and the number it will still accept before it returns 0      *)
(* (0 - 1: any number); a primitive gives the writer it leaves with n, the *)
(* value it returns.                                                       *)
(***************************************************************************)
RIL_ERR_CMD_WRITE == 2

\* st->write(st->write_obj, c)
Write(w, c) ==
    IF w.room # 0
    THEN [w EXCEPT !.out = Append(@, c), !.room = IF @ > 0 THEN @ - 1 ELSE @, !.n = 1]
    ELSE [w EXCEPT !.n = 0]

Unwritten(w) == [w EXCEPT !.n = 0]

CharWritten(r) == IF r.n = 0 THEN [r EXCEPT !.error = 0 - RIL_ERR_CMD_WRITE] ELSE r

ril_cmd_char(w, c) == CharWritten(Write(w, c))

RECURSIVE CharnLoop(_, _, _)
RECURSIVE CharnNext(_, _, _)
CharnNext(r, buffer, n) == IF r.n = 0 THEN r ELSE CharnLoop(r, Tail(buffer), n)

CharnLoop(w, buffer, n) ==
    IF buffer = <<>> THEN [w EXCEPT !.n = n]
    ELSE CharnNext(ril_cmd_char(w, Head(buffer)), buffer, n)

\* ril_cmd_charn(st, buffer, n) with n the length of buffer
ril_cmd_charn(w, buffer) ==
    IF w.error # 0 THEN Unwritten(w) ELSE CharnLoop(w, buffer, Len(buffer))

ril_cmd_eol(w) == ril_cmd_charn(w, CRLF)

\* ril_cmd_strn: at most n characters of str; it returns how many
ril_cmd_strn(w, str, n) ==
    IF w.error # 0 THEN Unwritten(w)
    ELSE IF n < 0 \/ n > Len(str) THEN CharnLoop(w, str, Len(str))
    ELSE CharnLoop(w, SubSeq(str, 1, n), n)

ril_cmd_str(w, str) == ril_cmd_strn(w, str, 0 - 1)

\* the second of two writes in a row, count being what the first returned
Counted(count, b) == IF b.n = 0 THEN b ELSE [b EXCEPT !.n = @ + count]

\* ril_cmd_strqqe
Escaped(c, quote_begin, quote_end, escape) ==
    escape # 0 /\ (c = escape \/ c = quote_begin \/ c = quote_end)

RECURSIVE StrqqeChars(_, _, _, _, _, _)
RECURSIVE StrqqeChar(_, _, _, _, _, _)
RECURSIVE StrqqeCharNext(_, _, _, _, _, _)
StrqqeCharNext(b, str, quote_begin, quote_end, escape, count) ==
    IF b.n = 0 THEN b
    ELSE StrqqeChars(b, Tail(str), quote_begin, quote_end, escape, count + 1)

StrqqeChar(a, str, quote_begin, quote_end, escape, count) ==
    IF a.n = 0 THEN a
    ELSE StrqqeCharNext(ril_cmd_char(a, Head(str)), str, quote_begin, quote_end, escape, count)

StrqqeChars(w, str, quote_begin, quote_end, escape, count) ==
    IF str = <<>> THEN [w EXCEPT !.n = count]
    ELSE IF Escaped(Head(str), quote_begin, quote_end, escape)
    THEN StrqqeChar(ril_cmd_char(w, escape), str, quote_begin, quote_end, escape, count + 1)
    ELSE StrqqeChar([w EXCEPT !.n = 1], str, quote_begin, quote_end, escape, count)

StrqqeClose(b, quote_end) == IF b.n = 0 THEN b ELSE Counted(b.n, ril_cmd_char(b, quote_end))

StrqqeOpen(a, str, quote_begin, quote_end, escape) ==
    IF a.n = 0 THEN a
    ELSE StrqqeClose(StrqqeChars(a, str, quote_begin, quote_end, escape, 1), quote_end)

ril_cmd_strqqe(w, str, quote_begin, quote_end, escape) ==
    IF w.error # 0 THEN Unwritten(w)
    ELSE StrqqeOpen(ril_cmd_char(w, quote_begin), str, quote_begin, quote_end, escape)

ril_cmd_at(w) == ril_cmd_str(w, StrAT)

\* ril_cmd_atc: the error is cleared, then 'AT' and the command are written
AtcCmd(a, cmd) == IF a.n = 0 THEN a ELSE Counted(a.n, ril_cmd_str(a, cmd))

ril_cmd_atc(w, cmd) == AtcCmd(ril_cmd_at([w EXCEPT !.error = 0]), cmd)

AtcoOp(a, op) == IF a.n = 0 THEN a ELSE Counted(a.n, ril_cmd_char(a, op))

ril_cmd_atco(w, cmd, op) ==
    IF w.error # 0 THEN Unwritten(w) ELSE AtcoOp(ril_cmd_atc(w, cmd), op)

QueryEol(a) == IF a.n = 0 THEN a ELSE Counted(a.n, ril_cmd_eol(a))

ril_cmd_query(w, cmd) ==
    IF w.error # 0 THEN Unwritten(w) ELSE QueryEol(ril_cmd_atco(w, cmd, 63))

\* the digits of a natural number in a base, as vsnprintf writes them
RECURSIVE NatDigits(_, _)
NatDigits(v, base) ==
    IF v < base THEN <<(IF v < 10 THEN 48 + v ELSE 55 + v)>>
    ELSE Append(NatDigits(v \div base, base),
                IF v % base < 10 THEN 48 + (v % base) ELSE 55 + (v % base))

\* _int2buf with the formats '%i' (ril_cmd_int), '%u' (ril_cmd_uint, for a
\* value that is not negative) and '%X' (ril_cmd_hex)
_int2buf(w, i, base) ==
    IF w.error # 0 THEN Unwritten(w)
    ELSE IF i < 0 THEN ril_cmd_charn(w, <<45>> \o NatDigits(0 - i, base))
    ELSE ril_cmd_charn(w, NatDigits(i, base))

ril_cmd_int(w, i) == _int2buf(w, i, 10)

ril_cmd_uint(w, u) == _int2buf(w, u, 10)

ril_cmd_hex(w, x) == _int2buf(w, x, 16)

\* ril_cmd_printf(st, "%A?%$", cmd), the call of the read commands of ril.c:
\* each conversion is written if the one before returned a count
ril_cmd_printf(w, cmd) ==
    IF w.error # 0 THEN Unwritten(w) ELSE QueryEol(AtcoOp(ril_cmd_atc(w, cmd), 63))

(***************************************************************************)
(* The parser called by a client, operation after operation, on what the   *)
(* modem sends.                                                            *)
(***************************************************************************)
\* the buffer_max of the parser that reads whole responses
ParseBufMax == 32

MaxFed == 1

StrCMEE == <<43, 67, 77, 69, 69>>  \* '+CMEE'

InfoCMEE == StrCMEE \o <<58, 32, 50>> \o CRLF  \* '+CMEE: 2\r\n'

LineCMEERROR == StrCMEERROR \o <<58, 32, 51>> \o CRLF  \* '+CME ERROR: 3\r\n'

EchoCMEE == StrAT \o StrCMEE \o <<63>> \o CRLF  \* 'AT+CMEE?\r\n'

\* the responses to 'AT+CMEE?' in the wire format of the modem: a blank
\* line or the echoed command, the information line, a blank line and the
\* final result; and an error answer, with the information line and without
ResponseOk == CRLF \o InfoCMEE \o CRLF \o LineOK

ResponseEchoOk == EchoCMEE \o InfoCMEE \o CRLF \o LineOK

ResponseInfoCme == CRLF \o InfoCMEE \o CRLF \o LineCMEERROR

ResponseCme == CRLF \o LineCMEERROR

\* the same without the blank line before the final result
ResponseDense == CRLF \o InfoCMEE \o LineOK

Responses == {ResponseOk, ResponseEchoOk, ResponseInfoCme, ResponseCme, ResponseDense}

\* what single matchers are given: a number, a final result, a string
Tokens ==
    {<<49, 50>> \o CRLF,        \* '12\r\n'
     <<45, 55, 44>>,            \* '-7,'
     <<49, 70, 13>>,            \* '1F\r'
     <<49, 13, 13, 10>>,        \* '1\r\r\n'
     LineOK,
     StrERROR \o CRLF,
     LineCMEERROR,
     EchoCMEE,
     <<88>>}                    \* 'X'

Prefixes(s) == {SubSeq(s, 1, n) : n \in 1..Len(s)}

\* the modem may stop anywhere in a token: the read then times out
ParseInputs == Responses \cup UNION {Prefixes(t) : t \in Tokens}

TransportSend(bytes) ==
    /\ io.in = <<>>
    /\ io.fed < MaxFed
    /\ io' = [io EXCEPT !.in = bytes, !.fed = @ + 1]
    /\ UNCHANGED <<gs, gslot, slotlock, slotdone, gs_sockets, loop, client, life, modem, wire, now, it, calls, urcs, rl, ril>>

\* the parse a call starts from
Parse == [st |-> ril, in |-> io.in, n |-> 0, c |-> 0, v |-> 0, val |-> 0, cm |-> 0 - 1, str |-> <<>>, to |-> FALSE]

\* a call of the parser that left the parse r
RspCall(op, r) ==
    /\ CursorValid
    /\ ril' = Parsed(op, r.st)
    /\ io' = [io EXCEPT !.in = r.in, !.out = <<>>, !.pre = io.in, !.preError = ril.error,
                        !.read = Taken(io.in, r.in), !.ret = r.n, !.val = r.val, !.str = r.str, !.arg = <<r.cm>>, !.timeout = r.to]
    /\ UNCHANGED <<gs, gslot, slotlock, slotdone, gs_sockets, loop, client, life, modem, wire, now, it, calls, urcs, rl>>

RspStr == RspCall("str", ril_rsp_str(Parse, StrOK))

RspEol == RspCall("eol", ril_rsp_eol(Parse))

RspLine == RspCall("line", ril_rsp_line(Parse, StrOK))

RspInt == RspCall("int", ril_rsp_int(Parse))

RspUint == RspCall("uint", ril_rsp_uint(Parse))

RspHex == RspCall("hex", ril_rsp_hex(Parse))

RspQuery == RspCall("query", ril_rsp_query(Parse, StrCMEE))

RspEcho == RspCall("echo", ril_rsp_echo(Parse, RIL_RT_10ms))

RspFinal == RspCall("final", ril_rsp_final(Parse))

\* the writer a call starts from
Writer == [error |-> ril.error, out |-> <<>>, room |-> io.room, n |-> 0]

\* the parse after the command was written
AfterCmd(w) == [Parse EXCEPT !.st.error = w.error]

\* _at_read(st, "+CMEE", val, RIL_RT_10ms): the command is written, then
\* echo, query, eol and final are called one after the other; it returns
\* st->error
_at_read(w) ==
    ril_rsp_final(ril_rsp_eol(ril_rsp_query(ril_rsp_echo(AfterCmd(w), RIL_RT_10ms), StrCMEE)))

AtReadCall(w, r) ==
    /\ CursorValid
    /\ ril' = Parsed("at_read", r.st)
    /\ io' = [io EXCEPT !.in = r.in, !.out = w.out, !.room = w.room,
                        !.pre = io.in, !.preError = ril.error, !.read = Taken(io.in, r.in),
                        !.ret = r.st.error, !.val = r.val, !.str = r.str, !.arg = <<r.cm>>, !.timeout = r.to]
    /\ UNCHANGED <<gs, gslot, slotlock, slotdone, gs_sockets, loop, client, life, modem, wire, now, it, calls, urcs, rl>>

AtRead == AtReadCall(ril_cmd_query(Writer, StrCMEE), _at_read(ril_cmd_query(Writer, StrCMEE)))

\* the parser after ril_init with a buffer of ParseBufMax bytes
InitParse ==
    /\ gs = [InitStatus EXCEPT !.thread = 1, !.talking = 1, !.running = 1]
    /\ gslot = ZeroSlot
    /\ slotlock = 1
    /\ slotdone = 0
    /\ gs_sockets = [i \in 0..(MAX_SOCKS - 1) |-> ZeroSocket]
    /\ loop = [pc |-> "top", t0 |-> 0, ss |-> 0]
    /\ client = [c \in Clients |-> IdleClient]
    /\ life = [pc |-> "idle", t0 |-> 0, err |-> "none"]
    /\ modem = <<>>
    /\ wire = <<>>
    /\ now = 0
    /\ it = NoIt
    /\ calls = 0
    /\ urcs = 0
    /\ rl = NoReadline
    /\ ril = [NoParser EXCEPT !.buf_max = ParseBufMax]
    /\ io = NoIo

ParseNext ==
    \/ \E b \in ParseInputs : TransportSend(b)
    \/ RspStr
    \/ RspEol
    \/ RspLine
    \/ RspInt
    \/ RspUint
    \/ RspHex
    \/ RspQuery
    \/ RspEcho
    \/ RspFinal
    \/ AtRead
    \/ RilFlush

SpecParse == InitParse /\ [][ParseNext]_vars

(***************************************************************************)
(* The writer called by a client, primitive after primitive, on a          *)
(* transport that accepts a number of bytes and then refuses.              *)
(***************************************************************************)
\* the most bytes the transport is said to accept before it refuses
MaxRoom == 3

\* the arguments of the primitives
CmdStrings == {StrCMEE, <<97, 34>>}  \* '+CMEE', 'a"'

CmdInts == {0 - 7, 0, 31}

\* the write callback will accept room more bytes (0 - 1: any number)
TransportRoom(room) ==
    /\ io.room # room
    /\ io' = [io EXCEPT !.room = room]
    /\ UNCHANGED <<gs, gslot, slotlock, slotdone, gs_sockets, loop, client, life, modem, wire, now, it, calls, urcs, rl, ril>>

\* a call of the writer that left the writer w
CmdCall(op, w) ==
    /\ ril' = Parsed(op, [ril EXCEPT !.error = w.error])
    /\ io' = [io EXCEPT !.out = w.out, !.room = w.room, !.pre = io.in, !.preError = ril.error,
                        !.ret = w.n, !.timeout = FALSE]
    /\ UNCHANGED <<gs, gslot, slotlock, slotdone, gs_sockets, loop, client, life, modem, wire, now, it, calls, urcs, rl>>

CmdChar == CmdCall("cmd_char", ril_cmd_char(Writer, 69))

CmdCharn == CmdCall("cmd_charn", ril_cmd_charn(Writer, StrOK))

CmdEol == CmdCall("cmd_eol", ril_cmd_eol(Writer))

CmdStr(str) == CmdCall("cmd_str", ril_cmd_str(Writer, str))

CmdStrn(str) == CmdCall("cmd_strn", ril_cmd_strn(Writer, str, 2))

CmdStrqqe(str) == CmdCall("cmd_strqqe", ril_cmd_strqqe(Writer, str, 34, 34, 92))

CmdAt == CmdCall("cmd_at", ril_cmd_at(Writer))

CmdAtc == CmdCall("cmd_atc", ril_cmd_atc(Writer, StrCMEE))

CmdAtco == CmdCall("cmd_atco", ril_cmd_atco(Writer, StrCMEE, 61))

CmdQuery == CmdCall("cmd_query", ril_cmd_query(Writer, StrCMEE))

CmdInt(i) == CmdCall("cmd_int", ril_cmd_int(Writer, i))

CmdUint(u) == CmdCall("cmd_uint", ril_cmd_uint(Writer, u))

CmdHex(x) == CmdCall("cmd_hex", ril_cmd_hex(Writer, x))

CmdPrintf == CmdCall("cmd_printf", ril_cmd_printf(Writer, StrCMEE))

\* ril_ate_set(st, 0): 'AT', 'E', the value and the line end are written
\* one primitive after the other, then the echo and the final result are
\* read
AteWritten(w) == ril_cmd_eol(ril_cmd_int(ril_cmd_char(ril_cmd_at(w), 69), 0))

AteRead(w) == ril_rsp_final(ril_rsp_echo(AfterCmd(w), RIL_RT_10ms))

AteSetCall(w, r) ==
    /\ CursorValid
    /\ ril' = Parsed("ate_set", r.st)
    /\ io' = [io EXCEPT !.in = r.in, !.out = w.out, !.room = w.room,
                        !.pre = io.in, !.preError = ril.error,
                        !.ret = r.st.error, !.timeout = r.to]
    /\ UNCHANGED <<gs, gslot, slotlock, slotdone, gs_sockets, loop, client, life, modem, wire, now, it, calls, urcs, rl>>

AteSet == AteSetCall(AteWritten(Writer), AteRead(AteWritten(Writer)))

\* the modem's answer to 'ATE0'
ModemOk ==
    /\ io.in = <<>>
    /\ io' = [io EXCEPT !.in = CRLF \o LineOK]
    /\ UNCHANGED <<gs, gslot, slotlock, slotdone, gs_sockets, loop, client, life, modem, wire, now, it, calls, urcs, rl, ril>>

CmdNext ==
    \/ \E room \in (0 - 1)..MaxRoom : TransportRoom(room)
    \/ CmdChar
    \/ CmdCharn
    \/ CmdEol
    \/ \E str \in CmdStrings : CmdStr(str)
    \/ \E str \in CmdStrings : CmdStrn(str)
    \/ \E str \in CmdStrings : CmdStrqqe(str)
    \/ CmdAt
    \/ CmdAtc
    \/ CmdAtco
    \/ CmdQuery
    \/ \E i \in CmdInts : CmdInt(i)
    \/ \E u \in CmdInts \cap Nat : CmdUint(u)
    \/ \E x \in CmdInts \cap Nat : CmdHex(x)
    \/ CmdPrintf
    \/ AteSet
    \/ ModemOk

SpecCmd == InitParse /\ [][CmdNext]_vars

(***************************************************************************)
(* A string written by the writer and read back by the parser: the         *)
(* transport returns to the read callback what the write callback took.    *)
(***************************************************************************)
MaxStr == 3

\* 'a', 'b', the quote and the escape character
StrAlphabet == {97, 98, 34, 92}

Strs == UNION {[1..n -> StrAlphabet] : n \in 0..MaxStr}

\* ril_cmd_strqqe(st, str, '"', '"', '\\') on a transport that loops back
StrSend(str) ==
    /\ ril.error = 0 /\ ril.count = 0
    /\ io.in = <<>>
    /\ ril' = Parsed("cmd_strqqe", ril)
    /\ io' = [io EXCEPT !.in = ril_cmd_strqqe(Writer, str, 34, 34, 92).out,
                        !.out = ril_cmd_strqqe(Writer, str, 34, 34, 92).out,
                        !.ret = ril_cmd_strqqe(Writer, str, 34, 34, 92).n,
                        !.pre = <<>>, !.preError = 0, !.arg = str, !.str = <<>>,
                        !.timeout = FALSE]
    /\ UNCHANGED <<gs, gslot, slotlock, slotdone, gs_sockets, loop, client, life, modem, wire, now, it, calls, urcs, rl>>

StrReceived(r) ==
    /\ CursorValid
    /\ ril' = Parsed("strqqe", r.st)
    /\ io' = [io EXCEPT !.in = r.in, !.pre = io.in, !.preError = ril.error,
                        !.ret = r.n, !.str = r.str, !.timeout = r.to]
    /\ UNCHANGED <<gs, gslot, slotlock, slotdone, gs_sockets, loop, client, life, modem, wire, now, it, calls, urcs, rl>>

\* ril_rsp_strqqe(st, '"', '"', '\\', str) on what was written
StrReceive ==
    /\ ril.last.op = "cmd_strqqe"
    /\ StrReceived(ril_rsp_strqqe(Parse, 34, 34, 92))

StrTripNext ==
    \/ \E str \in Strs : StrSend(str)
    \/ StrReceive
    \/ RilFlush

SpecStr == InitParse /\ [][StrTripNext]_vars

(***************************************************************************)
(* ril_rsp_stra: the search of what was read in a sorted table of names,   *)
(* one round of its loop at a time.                                        *)
(***************************************************************************)
MaxTable == 3

\* the rounds counted
MaxRounds == 4

\* the names of the tables: 'A', 'AB', 'B', 'C'
StraNames == {<<65>>, <<65, 66>>, <<66>>, <<67>>}

\* the pattern 'A-Z'
StraPattern == <<65, 45, 90>>

\* what the modem sends: a name of the tables or another, then ':'
StraInputs == {n \o <<58>> : n \in StraNames \cup {<<65, 67>>, <<68>>, <<>>}}

\* the comparison of the loop at lines 299-325: the bytes read against a
\* name, both ended by '\0'; the sign of the first difference
RECURSIVE StraCompare(_, _)
StraCompare(b, a) ==
    IF a = <<>> /\ b = <<>> THEN 0
    ELSE IF b = <<>> THEN 0 - 1
    ELSE IF a = <<>> THEN 1
    ELSE IF Head(b) < Head(a) THEN 0 - 1
    ELSE IF Head(b) > Head(a) THEN 1
    ELSE StraCompare(Tail(b), Tail(a))

\* the names in the order of strcmp
StraSorted(t) == \A i \in 1..(Len(t) - 1) : StraCompare(t[i], t[i + 1]) < 0

StraTables == {t \in UNION {[1..n -> StraNames] : n \in 1..MaxTable} : StraSorted(t)}

\* the call up to the loop: _clear, the characters of the pattern are read,
\* and with none the function ends with STRA_NONE
StraBegun(m, table) ==
    /\ ril' = Parsed("stra", IF m.n = 0 THEN ril_rsp_res_abort(m.st, 0 - RIL_ERR_RSP_STRA_NONE)
                             ELSE m.st)
    /\ io' = [io EXCEPT !.in = m.in, !.out = <<>>, !.pre = io.in, !.preError = ril.error,
                        !.timeout = m.to, !.table = table,
                        !.val = m.n, !.ret = 0 - 1,
                        !.pc = IF m.n = 0 THEN "done" ELSE "search",
                        !.min = 0, !.max = Len(table), !.steps = 0]
    /\ UNCHANGED <<gs, gslot, slotlock, slotdone, gs_sockets, loop, client, life, modem, wire, now, it, calls, urcs, rl>>

StraCall(table) ==
    /\ io.pc = "idle"
    /\ StraBegun(ril_rsp_match_strp([Parse EXCEPT !.st = _clear(ril)], StraPattern), table)

StraAbort(error) ==
    /\ ril' = [ril_rsp_res_abort(ril, error) EXCEPT !.last = ril.last]
    /\ io' = [io EXCEPT !.pc = "done", !.ret = 0 - 1]

StraFound(target) ==
    /\ ril' = [ril_rsp_res_ok(ril) EXCEPT !.last = ril.last]
    /\ io' = [io EXCEPT !.pc = "done", !.ret = target]

StraRounds == IF io.steps < MaxRounds THEN io.steps + 1 ELSE io.steps

\* one round of the loop with the target and the sign of the comparison
StraRound(target, cmp) ==
    IF cmp < 0
    THEN IF target = io.min THEN StraAbort(0 - RIL_ERR_RSP_STRA_UNDERFLOW)
         ELSE /\ io' = [io EXCEPT !.max = target, !.steps = StraRounds]
              /\ UNCHANGED ril
    ELSE IF cmp > 0
    THEN IF target = io.max THEN StraAbort(0 - RIL_ERR_RSP_STRA_OVERFLOW)
         ELSE /\ io' = [io EXCEPT !.min = target, !.steps = StraRounds]
              /\ UNCHANGED ril
    ELSE StraFound(target)

StraTarget == (io.min + io.max) \div 2

StraStep ==
    /\ io.pc = "search"
    /\ StraRound(StraTarget, StraCompare(SubSeq(ril.buf, 1, io.val), io.table[StraTarget + 1]))
    /\ UNCHANGED <<gs, gslot, slotlock, slotdone, gs_sockets, loop, client, life, modem, wire, now, it, calls, urcs, rl>>

StraReturn ==
    /\ io.pc = "done"
    /\ io' = [io EXCEPT !.pc = "idle"]
    /\ UNCHANGED <<gs, gslot, slotlock, slotdone, gs_sockets, loop, client, life, modem, wire, now, it, calls, urcs, rl, ril>>

StraNext ==
    \/ \E b \in StraInputs : TransportSend(b)
    \/ \E t \in StraTables : StraCall(t)
    \/ StraStep
    \/ StraReturn

SpecStra == InitParse /\ [][StraNext]_vars

\* every call returns if it is given the time
SpecStraFair == SpecStra /\ WF_vars(StraStep) /\ WF_vars(StraReturn)

(***************************************************************************)
(* _g350_attach, step by step: _gs_attach, the wait for the registration,  *)
(* the configuration and the activation of the profile, the wait for the   *)
(* attachment.  The exchanges with the modem are taken by their results;   *)
(* timeout is the local variable of that name, seen tells whether the      *)
(* profile was reported attached by '+UUPSDA: 0' or by the status 1 of     *)
(* '+UPSND', and expired which of the two waits ran out (history).         *)
(***************************************************************************)
\* the wtimeout of the caller, in ms
AttachTimeouts == {0 - 1, 0, 100, 250, 1000, 1500}

Args081 == <<48, 44, 56, 44, 49>>  \* '0,8,1'

Args080 == <<48, 44, 56, 44, 48>>  \* '0,8,0'

\* what the slot of '+UPSND' holds when _gs_query_psd reads it: nothing
\* after an error or a timeout, or the line of the answer from its
\* parameters on
UpsndReplies == {<<>>, Args080 \o CRLF, Args081 \o CRLF}

\* _gs_query_psd(8, NULL, NULL) on the response of the slot
_gs_query_psd(resp) ==
    IF Len(_gs_parse_command_arguments(resp, <<"i", "i", "i">>)) # 3 THEN 0
    ELSE _gs_parse_command_arguments(resp, <<"i", "i", "i">>)[2]

\* the status the modem reported in the answer
UpsndStatus(resp) ==
    IF Len(_gs_parse_command_arguments(resp, <<"i", "i", "i">>)) # 3 THEN 0
    ELSE _gs_parse_command_arguments(resp, <<"i", "i", "i">>)[3]

Registered(g) == g.registered = GS_REG_OK \/ g.registered = GS_REG_ROAMING

AttachFrame ==
    UNCHANGED <<gslot, slotlock, slotdone, gs_sockets, loop, life, modem, wire, now, it, calls, urcs, rl, ril, io>>

AttachReturned(c, err) ==
    client' = [client EXCEPT ![c].pc = "idle", ![c].res = err]

AttachCall(c, wtimeout) ==
    /\ client[c].pc = "idle"
    /\ client' = [client EXCEPT ![c] = [IdleClient EXCEPT !.pc = "cgatt", !.op = "g350_attach",
                                                          !.api = "g350_attach",
                                                          !.args = <<wtimeout>>]]
    /\ UNCHANGED gs
    /\ AttachFrame

\* err = _gs_attach(); if (err) goto exit; timeout = wtimeout
AttachCgatt(c, err) ==
    /\ client[c].pc = "cgatt" /\ client[c].op = "g350_attach"
    /\ IF err # "ERR_OK" THEN AttachReturned(c, err)
       ELSE client' = [client EXCEPT ![c].pc = "registering", ![c].timeout = client[c].args[1]]
    /\ UNCHANGED gs
    /\ AttachFrame

\* one test of `while (timeout > 0)` and one round of the first loop;
\* registered is what _gs_check_network leaves in gs.registered
AttachRegister(c, registered) ==
    /\ client[c].pc = "registering"
    /\ IF client[c].timeout > 0
       THEN /\ gs' = [gs EXCEPT !.registered = registered]
            /\ client' = [client EXCEPT ![c].pc = IF Registered(gs') THEN "registered" ELSE @,
                                        ![c].timeout = IF Registered(gs') THEN @ ELSE @ - 100]
       ELSE /\ client' = [client EXCEPT ![c].pc = "registered",
                                        ![c].expired = IF Registered(gs) THEN @ ELSE "registration"]
            /\ UNCHANGED gs
    /\ AttachFrame

\* if (timeout < 0) { err = ERR_TIMEOUT_EXC; goto exit; }
AttachRegistered(c) ==
    /\ client[c].pc = "registered"
    /\ IF client[c].timeout < 0 THEN AttachReturned(c, "ERR_TIMEOUT_EXC")
       ELSE client' = [client EXCEPT ![c].pc = "psd"]
    /\ UNCHANGED gs
    /\ AttachFrame

\* the profile is deactivated, configured and activated; failed tells the
\* first call that returned 0: a _gs_configure_psd, _gs_control_psd(3), or
\* none
AttachPsd(c, failed) ==
    /\ client[c].pc = "psd"
    /\ gs' = IF failed = "configure" THEN gs ELSE [gs EXCEPT !.attached = 0]
    /\ IF failed # "none" THEN AttachReturned(c, "g350exc")
       ELSE client' = [client EXCEPT ![c].pc = "attaching", ![c].timeout = client[c].args[1]]
    /\ AttachFrame

\* the loop thread handles '+UUPSDA: <p0>' (_gs_handle_urc)
AttachUrc(c, p0) ==
    /\ client[c].pc \in {"attaching", "querying"}
    /\ gs.attached # (IF p0 = 0 THEN 1 ELSE 0)
    /\ gs' = [gs EXCEPT !.attached = IF p0 = 0 THEN 1 ELSE 0]
    /\ client' = [client EXCEPT ![c].seen = @ \/ p0 = 0]
    /\ AttachFrame

\* one test of `while (timeout > 0)` of the second loop, the test of
\* gs.attached, the sleep and `timeout -= 1000`
AttachPoll(c) ==
    /\ client[c].pc = "attaching"
    /\ IF client[c].timeout > 0
       THEN IF gs.attached # 0 THEN client' = [client EXCEPT ![c].pc = "attached"]
            ELSE client' = [client EXCEPT ![c].pc = "querying", ![c].timeout = @ - 1000]
       ELSE client' = [client EXCEPT ![c].pc = "attached",
                                     ![c].expired = IF gs.attached # 0 THEN @ ELSE "attachment"]
    /\ UNCHANGED gs
    /\ AttachFrame

\* if (_gs_query_psd(8, NULL, NULL)) { gs.attached = 1; break; }
AttachQuery(c, resp) ==
    /\ client[c].pc = "querying"
    /\ IF _gs_query_psd(resp) # 0
       THEN /\ gs' = [gs EXCEPT !.attached = 1]
            /\ client' = [client EXCEPT ![c].pc = "attached",
                                        ![c].seen = @ \/ UpsndStatus(resp) = 1]
       ELSE /\ client' = [client EXCEPT ![c].pc = "attaching"]
            /\ UNCHANGED gs
    /\ AttachFrame

\* if (timeout < 0) err = ERR_TIMEOUT_EXC; else err = ERR_OK;
AttachEnd(c) ==
    /\ client[c].pc = "attached"
    /\ AttachReturned(c, IF client[c].timeout < 0 THEN "ERR_TIMEOUT_EXC" ELSE "ERR_OK")
    /\ UNCHANGED gs
    /\ AttachFrame

AttachNext ==
    \/ \E w \in AttachTimeouts : AttachCall(1, w)
    \/ \E err \in {"ERR_OK", "ERR_TIMEOUT_EXC", "g350exc"} : AttachCgatt(1, err)
    \/ \E r \in {GS_REG_NOT, GS_REG_OK, GS_REG_ROAMING} : AttachRegister(1, r)
    \/ AttachRegistered(1)
    \/ \E failed \in {"none", "configure", "activate"} : AttachPsd(1, failed)
    \/ \E p0 \in {0, 1} : AttachUrc(1, p0)
    \/ AttachPoll(1)
    \/ \E resp \in UpsndReplies : AttachQuery(1, resp)
    \/ AttachEnd(1)

SpecAttach == InitRunning /\ [][AttachNext]_vars

(***************************************************************************)
(* Prompt mode poll by poll: the 40 sleeps of the loop's prompt branch and *)
(* the 100 sleeps of _gs_wait_for_slot_mode are counted, loop.ss and       *)
(* client.step being the counters ss and cnt of the code.                  *)
(***************************************************************************)
\* for (ss = 0; ss < 40; ss++)
PromptPolls == 40

\* while (gs.mode == GS_MODE_NORMAL && cnt < 100)
WaitModePolls == 100

\* a prompt branch that polls without end
PromptPollsLeft_Unbounded(ss) == TRUE

PromptPollsLeft(ss) == ss < PromptPolls

\* the prompt branch is left: gs.mode = GS_MODE_NORMAL; polls is the number
\* of sleeps taken (history)
PromptLeft(polls) ==
    /\ gs' = [gs EXCEPT !.mode = GS_MODE_NORMAL]
    /\ loop' = [pc |-> "top", t0 |-> 0, ss |-> 0]
    /\ it' = [NoIt EXCEPT !.kind = "promptexit", !.ret = polls, !.preMode = gs.mode]

\* one round of the for loop: vosThSleep(500 ms), then the test of gs.mode
LoopPromptPoll ==
    /\ loop.pc = "prompt"
    /\ PromptPollsLeft(loop.ss)
    /\ IF gs.mode # GS_MODE_PROMPT THEN PromptLeft(loop.ss + 1)
       ELSE /\ loop' = [loop EXCEPT !.ss = @ + 1]
            /\ it' = NoIt
            /\ UNCHANGED gs
    /\ UNCHANGED <<gslot, slotlock, slotdone, gs_sockets, client, life, modem, wire, now, calls, urcs, rl, ril, io>>

\* the for loop ends after its last round
LoopPromptDone ==
    /\ loop.pc = "prompt"
    /\ ~PromptPollsLeft(loop.ss)
    /\ PromptLeft(loop.ss)
    /\ UNCHANGED <<gslot, slotlock, slotdone, gs_sockets, client, life, modem, wire, now, calls, urcs, rl, ril, io>>

\* one round of the wait of _gs_wait_for_slot_mode: vosThSleep(100 ms), cnt++
WaitModePoll(c) ==
    /\ client[c].pc = "waitmode"
    /\ gs.mode = GS_MODE_NORMAL /\ client[c].step < WaitModePolls
    /\ client' = [client EXCEPT ![c].step = @ + 1]
    /\ it' = NoIt
    /\ UNCHANGED <<gs, gslot, slotlock, slotdone, gs_sockets, loop, life, modem, wire, now, calls, urcs, rl, ril, io>>

\* the wait is over and gs.mode is not GS_MODE_PROMPT: return 1
WaitModeGiveUp(c) ==
    /\ client[c].pc = "waitmode"
    /\ ~(gs.mode = GS_MODE_NORMAL /\ client[c].step < WaitModePolls)
    /\ gs.mode # GS_MODE_PROMPT
    /\ client' = [client EXCEPT ![c].pc = "wait", ![c].ret = 1]
    /\ it' = [NoIt EXCEPT !.kind = "waitmode", !.ret = 1, !.preMode = gs.mode, !.lineTag = c]
    /\ UNCHANGED <<gs, gslot, slotlock, slotdone, gs_sockets, loop, life, modem, wire, now, calls, urcs, rl, ril, io>>

\* the wait is over in Prompt mode: the text and the addtxt are written,
\* which the modem takes if it is prompting, gs.mode = GS_MODE_NORMAL,
\* return 0
WaitModeWrite(c) ==
    /\ client[c].pc = "waitmode"
    /\ ~(gs.mode = GS_MODE_NORMAL /\ client[c].step < WaitModePolls)
    /\ gs.mode = GS_MODE_PROMPT
    /\ gs' = [gs EXCEPT !.mode = GS_MODE_NORMAL]
    /\ modem' = IF modem # <<>> /\ Head(modem).stage = "prompting"
                THEN <<[Head(modem) EXCEPT !.stage = "text"]>> \o Tail(modem)
                ELSE modem
    /\ client' = [client EXCEPT ![c].pc = "wait", ![c].ret = 0]
    /\ it' = [NoIt EXCEPT !.kind = "waitmode", !.ret = 0, !.preMode = gs.mode, !.lineTag = c,
                          !.wrote = TRUE]
    /\ UNCHANGED <<gslot, slotlock, slotdone, gs_sockets, loop, life, wire, now, calls, urcs, rl, ril, io>>

PromptNext ==
    \/ Call(1, "sms_send")
    \/ Acquire(1)
    \/ Send(1)
    \/ WaitModePoll(1)
    \/ WaitModeGiveUp(1)
    \/ WaitModeWrite(1)
    \/ Wait(1)
    \/ Release(1)
    \/ LoopNormal
    \/ LoopPromptEnter
    \/ LoopPromptPoll
    \/ LoopPromptDone
    \/ ModemRespond

SpecPrompt == InitRunning /\ [][PromptNext]_vars

\* the loop thread is scheduled
SpecPromptFair == SpecPrompt /\ WF_vars(LoopPromptPoll) /\ WF_vars(LoopPromptDone)

(***************************************************************************)
(* The character classes of ril_rsp_match_charp: one matcher is called on  *)
(* what the modem sent, a single character or a short word.                *)
(***************************************************************************)
PatDigits == <<48, 45, 57>>  \* '0-9'

PatHex == <<65, 45, 70, 97, 45, 102, 48, 45, 57>>  \* 'A-Fa-f0-9'

PatSign == <<43, 45>>  \* '+-'

PatNotColon == <<94, 58>>  \* '^:'

PatNotDigits == <<94, 48, 45, 57>>  \* '^0-9'

PatLetters == <<97, 65, 98, 66>>  \* 'aAbB'

CharpPatterns == {PatDigits, PatHex, PatSign, PatNotColon, PatNotDigits, PatLetters}

\* '+', ',', '-', '/', '0', '5', '9', ':', 'A', 'B', 'F', 'G', 'a', 'f', 'g'
CharpAlphabet == {43, 44, 45, 47, 48, 53, 57, 58, 65, 66, 70, 71, 97, 102, 103}

CharpWords ==
    {<<49, 45, 50, 44>>,   \* '1-2,'
     <<49, 50, 44>>,       \* '12,'
     <<70, 45, 49, 44>>,   \* 'F-1,'
     <<49, 70, 44>>}       \* '1F,'

CharpInputs == {<<c>> : c \in CharpAlphabet} \cup CharpWords

\* ril_rsp_match_charp(st, pattern) is called
RspMatchCharp(pattern) ==
    /\ CursorValid
    /\ ril.count = 0
    /\ io.in # <<>>
    /\ ril' = Parsed("match_charp", ril_rsp_match_charp(Parse, pattern).st)
    /\ io' = [io EXCEPT !.in = ril_rsp_match_charp(Parse, pattern).in, !.pre = io.in,
                        !.preError = ril.error,
                        !.read = Taken(io.in, ril_rsp_match_charp(Parse, pattern).in),
                        !.ret = ril_rsp_match_charp(Parse, pattern).n, !.arg = pattern]
    /\ UNCHANGED <<gs, gslot, slotlock, slotdone, gs_sockets, loop, client, life, modem, wire, now, it, calls, urcs, rl>>

CharpNext ==
    \/ \E b \in CharpInputs : TransportSend(b)
    \/ \E pattern \in CharpPatterns : RspMatchCharp(pattern)
    \/ RspInt
    \/ RspUint
    \/ RspHex
    \/ RilFlush

SpecCharp == InitParse /\ [][CharpNext]_vars

(***************************************************************************)
(* Commands one after the other on one parser: 'AT+CMEE?' and 'ATE0' are   *)
(* issued in any order while the modem answers, or does not.               *)
(***************************************************************************)
\* the answer to 'ATE0' and the answers to 'AT+CMEE?'
StickyInputs == Responses \cup {CRLF \o LineOK, EchoCMEE}

\* 'ATE0\r\n'
RequestATE0 == StrAT \o <<69, 48>> \o CRLF

StickyNext ==
    \/ \E b \in StickyInputs : TransportSend(b)
    \/ AtRead
    \/ AteSet
    \/ RilFlush

SpecSticky == InitParse /\ [][StickyNext]_vars

(***************************************************************************)
(* _gs_readline(100) called by the loop while the bytes of the modem's     *)
(* lines arrive one by one.  Time passes in the 50 ms sleeps of            *)
(* _gs_readline.                                                           *)
(***************************************************************************)
\* the timeout the loop gives _gs_readline, and its sleep, in milliseconds
ReadlineTimeoutMs == 100

ReadlineSleepMs == 50

\* the loop takes a return of at most NoLineMax bytes for no line
NoLineMax == 3

MaxSleeps == 8

ArriveLines == {LineOK, UrcUUSOCL}

\* the modem starts to send a line
ModemEmit(l) ==
    /\ rl.emit = <<>>
    /\ rl.lines < MaxLines
    /\ rl' = [rl EXCEPT !.emit = l, !.lines = @ + 1, !.emitted = Append(@, l)]
    /\ UNCHANGED <<gs, gslot, slotlock, slotdone, gs_sockets, loop, client, life, modem, wire, now, it, calls, urcs, ril, io>>

\* the next byte of the line reaches the serial driver
ModemByte ==
    /\ rl.emit # <<>>
    /\ rl' = [rl EXCEPT !.emit = Tail(@), !.fifo = Append(@, Head(rl.emit))]
    /\ UNCHANGED <<gs, gslot, slotlock, slotdone, gs_sockets, loop, client, life, modem, wire, now, it, calls, urcs, ril, io>>

\* (vosMillis() - tstart) > timeout
ReadlineExpired == now - rl.tstart > ReadlineTimeoutMs

\* gs.bytes = 0; buf = gs.buffer; tstart = vosMillis()
ReadlineStart ==
    /\ rl.pc = "idle"
    /\ rl' = [rl EXCEPT !.pc = "reading", !.bytes = 0, !.buf = <<>>, !.tstart = now]
    /\ UNCHANGED <<gs, gslot, slotlock, slotdone, gs_sockets, loop, client, life, modem, wire, now, it, calls, urcs, ril, io>>

\* the timeout is over: return -1
ReadlineExpire ==
    /\ rl.pc = "reading"
    /\ rl.bytes < MAX_BUF - 1
    /\ ReadlineExpired
    /\ rl' = [rl EXCEPT !.pc = "returned", !.ret = 0 - 1]
    /\ UNCHANGED <<gs, gslot, slotlock, slotdone, gs_sockets, loop, client, life, modem, wire, now, it, calls, urcs, ril, io>>

\* a byte is available: it is read, stored and counted; after a line feed
\* the call returns gs.bytes
ReadlineRead ==
    /\ rl.pc = "reading"
    /\ rl.bytes < MAX_BUF - 1
    /\ ~ReadlineExpired
    /\ rl.fifo # <<>>
    /\ rl' = [rl EXCEPT !.fifo = Tail(@), !.buf = Append(@, Head(rl.fifo)), !.bytes = @ + 1,
                        !.pc = IF Head(rl.fifo) = 10 THEN "returned" ELSE "reading",
                        !.ret = IF Head(rl.fifo) = 10 THEN rl.bytes + 1 ELSE @]
    /\ UNCHANGED <<gs, gslot, slotlock, slotdone, gs_sockets, loop, client, life, modem, wire, now, it, calls, urcs, ril, io>>

\* nothing is available: vosThSleep(TIME_U(50, MILLIS)); continue
ReadlineSleep ==
    /\ rl.pc = "reading"
    /\ rl.bytes < MAX_BUF - 1
    /\ ~ReadlineExpired
    /\ rl.fifo = <<>>
    /\ now < MaxSleeps * ReadlineSleepMs
    /\ now' = now + ReadlineSleepMs
    /\ UNCHANGED <<gs, gslot, slotlock, slotdone, gs_sockets, loop, client, life, modem, wire, rl, it, calls, urcs, ril, io>>

\* the lines the loop has after _gs_readline returned ret with buf stored
LoopHanded(handed, ret, buf) == IF ret <= NoLineMax THEN handed ELSE Append(handed, buf)

\* the loop after _gs_readline(100): no line and continue, or the line is
\* classified by _gs_parse_command_response
LoopLine ==
    /\ rl.pc = "returned"
    /\ rl' = [rl EXCEPT !.pc = "idle", !.handed = LoopHanded(@, rl.ret, rl.buf)]
    /\ UNCHANGED <<gs, gslot, slotlock, slotdone, gs_sockets, loop, client, life, modem, wire, now, it, calls, urcs, ril, io>>

ArriveNext ==
    \/ \E l \in ArriveLines : ModemEmit(l)
    \/ ModemByte
    \/ ReadlineStart
    \/ ReadlineExpire
    \/ ReadlineRead
    \/ ReadlineSleep
    \/ LoopLine

SpecArrive == InitRunning /\ [][ArriveNext]_vars
(***************************************************************************)
(* Specifications                                                          *)
(***************************************************************************)
\* the operations a client calls in the main specification
ClientOps(c) ==
    IF c = 1 THEN {"socket_create", "socket_connect", "attach", "sms_send", "sms_list"}
    ELSE {"attach"}

\* the unsolicited line of the main specification
MainUrcs == {UrcCIEV}

ClientStep(c) ==
    \/ Acquire(c)
    \/ Send(c)
    \/ WaitModeOk(c)
    \/ WaitModeTimeout(c)
    \/ Wait(c)
    \/ Release(c)

LoopStep ==
    \/ LoopNormal
    \/ LoopPromptEnter
    \/ LoopPromptExit

\* the driver started and talking to the modem
Next ==
    \/ \E c \in Clients : \E op \in ClientOps(c) : Call(c, op)
    \/ \E c \in Clients : ClientStep(c)
    \/ LoopStep
    \/ ModemRespond
    \/ \E l \in MainUrcs : ModemUrc(l)
    \/ Tick

Spec == InitRunning /\ [][Next]_vars

\* the unsolicited lines of the claims about URCs
UrcLines == {UrcCIEV, UrcCREG, UrcCGREG, UrcCMTI, UrcUUPSDA, UrcUUSOCL, UrcUUSORD, UrcUUSORF}

\* one client querying the registration while the modem sends URCs
UrcNext ==
    \/ Call(1, "check_network")
    \/ Acquire(1)
    \/ Send(1)
    \/ Wait(1)
    \/ Release(1)
    \/ LoopNormal
    \/ ModemRespond
    \/ \E l \in UrcLines : ModemUrc(l)
    \/ Tick

SpecUrc == InitRunning /\ [][UrcNext]_vars

\* the operations called against a modem that answers nothing
SilentOps(c) == IF c = 1 THEN {"attach", "sms_send"} ELSE {"check_network"}

\* a blocked client has a deadline still ahead
DeadlineAhead ==
    \E c \in Clients :
        \/ client[c].pc = "waitmode" /\ now - client[c].t0 < WaitModeMs
        \/ client[c].pc = "wait" /\ gs.slot /\ ~SlotExpired(gslot, now)

\* the clock, advanced only towards a deadline: MaxTicks steps then cover
\* the deadlines of MaxCalls operations
SilentTick == DeadlineAhead /\ Tick

SilentClientStep(c) ==
    \/ Acquire(c)
    \/ Send(c)
    \/ WaitModeTimeout(c)
    \/ Wait(c)
    \/ Release(c)

SilentNext ==
    \/ \E c \in Clients : \E op \in SilentOps(c) : Call(c, op)
    \/ \E c \in Clients : SilentClientStep(c)
    \/ LoopNormal
    \/ SilentTick

\* the loop thread and the client threads are scheduled, and time passes
SpecSilent ==
    /\ InitRunning
    /\ [][SilentNext]_vars
    /\ WF_vars(LoopNormal)
    /\ WF_vars(SilentTick)
    /\ \A c \in Clients : WF_vars(SilentClientStep(c))

\* the driver from _g350_init on: startup, shutdown, and one client
LifeNext ==
    \/ Call(1, "attach")
    \/ Acquire(1)
    \/ Send(1)
    \/ Wait(1)
    \/ Release(1)
    \/ LoopIdle
    \/ LoopNormal
    \/ StartupLock
    \/ StartupStop
    \/ StartupStopWait
    \/ StartupConfig
    \/ StartupStartWait
    \/ StartupUnlock
    \/ ShutdownLock
    \/ ShutdownStop
    \/ ShutdownStopWait
    \/ ShutdownUnlock
    \/ Tick

SpecLife == Init /\ [][LifeNext]_vars

(***************************************************************************)
(* Socket operations: client 1 creates a socket, TCP or UDP, to which the  *)
(* modem gives index 0, and receives from it, sets its options or closes   *)
(* it, while client 2 attaches; the modem reports data or the remote close *)
(* of socket 0.  No time passes, so that no receive times out.             *)
(***************************************************************************)
SockOptions == {<<65535, 1>>, <<65535, 8>>, <<65535, 2>>, <<1, 8>>}

SockCalls(c) ==
    IF c = 1
    THEN {<<"socket_create", <<6>>>>, <<"socket_create", <<17>>>>,
          <<"recv", <<0, 4>>>>, <<"recvfrom", <<0, 4>>>>}
    ELSE {<<"attach", <<>>>>}

SockClientStep(c) ==
    \/ Acquire(c)
    \/ Send(c)
    \/ Wait(c)
    \/ Release(c)
    \/ WaitRx(c)

SockNext ==
    \/ \E c \in Clients : \E x \in SockCalls(c) : CallSocket(c, x[1], x[2])
    \/ \E c \in Clients : SockClientStep(c)
    \/ LoopNormal
    \/ ModemRespond
    \/ \E l \in {UrcUUSOCL, UrcUUSORD} : ModemUrc(l)

SpecSock == InitRunning /\ [][SockNext]_vars

(***************************************************************************)
(* Socket options: one client creates a TCP socket, sets its options,      *)
(* receives from it and closes it, while time passes.                      *)
(***************************************************************************)
OptCalls ==
    {<<"socket_create", <<6>>>>, <<"recv", <<0, 4>>>>, <<"socket_close", <<0>>>>}
    \cup {<<"setsockopt", <<0, o[1], o[2], 1000>>>> : o \in SockOptions}

OptNext ==
    \/ \E x \in OptCalls : CallSocket(1, x[1], x[2])
    \/ SockClientStep(1)
    \/ WaitRxTimeout(1)
    \/ LoopNormal
    \/ ModemRespond
    \/ ModemUrc(UrcUUSORD)
    \/ Tick

SpecOpt == InitRunning /\ [][OptNext]_vars

(***************************************************************************)
(* Secure sockets: both clients create secure sockets (no certificate      *)
(* verification, no client certificate) and close socket 0, while the      *)
(* modem, which gives a new socket the index 0 or 1, may report the remote *)
(* close of socket 0.                                                      *)
(***************************************************************************)
TlsCalls == {<<"secure_socket", <<6>>>>, <<"socket_close", <<0>>>>}

TlsClientStep(c) ==
    \/ Acquire(c)
    \/ Send(c)
    \/ Wait(c)
    \/ Release(c)

TlsNext ==
    \/ \E c \in Clients : \E x \in TlsCalls : CallSocket(c, x[1], x[2])
    \/ \E c \in Clients : TlsClientStep(c)
    \/ LoopNormal
    \/ ModemAnswer(TRUE)
    \/ ModemUrc(UrcUUSOCL)

SpecTls == InitRunning /\ [][TlsNext]_vars

(***************************************************************************)
(* Registration: one client queries the registration with                  *)
(* _gs_check_network, +CREG? then +CGREG?, while the modem sends the URCs  *)
(* of a GSM or of a GPRS registration.                                     *)
(***************************************************************************)
RegUrcs == {UrcCREG, UrcCGREG}

RegNext ==
    \/ Call(1, "gs_check_network")
    \/ Acquire(1)
    \/ Send(1)
    \/ Wait(1)
    \/ Release(1)
    \/ LoopNormal
    \/ ModemRespond
    \/ \E l \in RegUrcs : ModemUrc(l)
    \/ Tick

SpecReg == InitRunning /\ [][RegNext]_vars

(***************************************************************************)
(* The readers of the serial port: the loop thread, its iteration in two   *)
(* steps, with startup and shutdown called at any time.                    *)
(***************************************************************************)
ReaderNext ==
    \/ LoopIdle
    \/ LoopEnter
    \/ LoopRead
    \/ ModemUrc(UrcCIEV)
    \/ StartupLock
    \/ StartupStop
    \/ StartupStopWait
    \/ StartupConfig
    \/ StartupStartWait
    \/ StartupUnlock
    \/ ShutdownLock
    \/ ShutdownStop
    \/ ShutdownStopWait
    \/ ShutdownUnlock
    \/ Tick

SpecReader == Init /\ [][ReaderNext]_vars

(***************************************************************************)
(* Datagram receive: one client creates a UDP socket, to which the modem   *)
(* gives index 0, sets or leaves its receive timeout and receives from it, *)
(* while the modem reports data or the remote close of socket 0 and time   *)
(* passes.                                                                 *)
(***************************************************************************)
DgramCalls ==
    {<<"socket_create", <<17>>>>, <<"recvfrom", <<0, 4>>>>, <<"setsockopt", <<0, 65535, 1, 1000>>>>}

DgramNext ==
    \/ \E x \in DgramCalls : CallSocket(1, x[1], x[2])
    \/ SockClientStep(1)
    \/ WaitRxTimeout(1)
    \/ LoopNormal
    \/ ModemRespond
    \/ \E l \in {UrcUUSOCL, UrcUUSORD} : ModemUrc(l)
    \/ Tick

SpecDgram == InitRunning /\ [][DgramNext]_vars

(***************************************************************************)
(* Stream and datagram send: one client creates a socket, to which the     *)
(* modem gives index 0, and sends 40 bytes on it; the modem reports 0, 8   *)
(* or 32 bytes written, or fails.  An operation writes at most MaxWrites   *)
(* commands in the model.                                                  *)
(***************************************************************************)
MaxWrites == 4

SendLen == 40

SendCalls ==
    {<<"socket_create", <<6>>>>, <<"socket_create", <<17>>>>,
     <<"send", <<0, SendLen>>>>, <<"sendto", <<0, SendLen>>>>}

\* _gs_acquire_slot of an operation that has written fewer than MaxWrites
\* commands
SendAcquire(c) == Len(client[c].sent) < MaxWrites /\ Acquire(c)

SendNext ==
    \/ \E x \in SendCalls : CallSocket(1, x[1], x[2])
    \/ SendAcquire(1)
    \/ Send(1)
    \/ Wait(1)
    \/ Release(1)
    \/ LoopNormal
    \/ ModemRespond

SpecSend == InitRunning /\ [][SendNext]_vars

(***************************************************************************)
(* The start/stop handshake poll by poll, and _g350_bypass, which calls    *)
(* _gs_stop and _gs_start around gs.slotlock.  client.step is the counter  *)
(* i of the polling loops.                                                 *)
(***************************************************************************)
\* for (i = 50; i > 0; --i) of _gs_stop
StopPolls == 50

\* for (i = 30; i > 0; --i) of _gs_start
StartPolls == 30

MaxBypass == 3

\* _g350_bypass(mode) is called
BypassCall(c, mode) ==
    /\ client[c].pc = "idle"
    /\ calls < MaxBypass
    /\ calls' = calls + 1
    /\ client' = [client EXCEPT ![c] = [IdleClient EXCEPT !.api = "bypass", !.op = "bypass",
                                                          !.args = <<mode>>, !.tag = calls + 1,
                                                          !.res = "ERR_OK",
                                                          !.pc = IF mode # 0 THEN "by_lock"
                                                                 ELSE "gs_start"]]
    /\ it' = NoIt
    /\ UNCHANGED <<gs, gslot, slotlock, slotdone, gs_sockets, loop, life, modem, wire, now, urcs, rl, ril, io>>

\* mode != 0: vosSemWait(gs.slotlock)
BypassLock(c) ==
    /\ client[c].pc = "by_lock"
    /\ vosSemWait(slotlock)
    /\ slotlock' = slotlock - 1
    /\ client' = [client EXCEPT ![c].pc = "gs_stop"]
    /\ it' = NoIt
    /\ UNCHANGED <<gs, gslot, slotdone, gs_sockets, loop, life, modem, wire, now, calls, urcs, rl, ril, io>>

\* if (gs.running) return GS_ERR_INVALID; return GS_ERR_OK;
StopResult(running) == IF running # 0 THEN GS_ERR_INVALID ELSE GS_ERR_OK

\* if (!gs.running) return GS_ERR_INVALID; return GS_ERR_OK;
StartResult(running) == IF running = 0 THEN GS_ERR_INVALID ELSE GS_ERR_OK

\* _gs_stop returns r to _g350_bypass, which returns; the lock is kept
GsStopReturn(c, r) ==
    /\ client' = [client EXCEPT ![c].pc = "idle", ![c].ret = r,
                                ![c].res = IF r # 0 THEN "ERR_HARDWARE_INITIALIZATION_ERROR"
                                           ELSE "ERR_OK"]
    /\ it' = [NoIt EXCEPT !.kind = "gs_stop", !.ret = r, !.lineTag = c]

\* _gs_stop: if (gs.talking) gs.talking = 0, and the polling begins
GsStop(c) ==
    /\ client[c].pc = "gs_stop"
    /\ IF gs.talking # 0
       THEN /\ gs' = [gs EXCEPT !.talking = 0]
            /\ client' = [client EXCEPT ![c].pc = "stop_poll", ![c].step = StopPolls]
       ELSE /\ gs' = gs
            /\ client' = [client EXCEPT ![c].pc = "stop_check"]
    /\ it' = NoIt
    /\ UNCHANGED <<gslot, slotlock, slotdone, gs_sockets, loop, life, modem, wire, now, calls, urcs, rl, ril, io>>

\* one round of the for loop: if (!gs.running) break; vosThSleep(100 ms)
GsStopPoll(c) ==
    /\ client[c].pc = "stop_poll"
    /\ client[c].step > 0
    /\ client' = IF gs.running = 0 THEN [client EXCEPT ![c].pc = "stop_check"]
                 ELSE [client EXCEPT ![c].step = @ - 1]
    /\ it' = NoIt
    /\ UNCHANGED <<gs, gslot, slotlock, slotdone, gs_sockets, loop, life, modem, wire, now, calls, urcs, rl, ril, io>>

\* if (i == 0) return GS_ERR_TIMEOUT
GsStopTimeout(c) ==
    /\ client[c].pc = "stop_poll"
    /\ client[c].step = 0
    /\ GsStopReturn(c, GS_ERR_TIMEOUT)
    /\ UNCHANGED <<gs, gslot, slotlock, slotdone, gs_sockets, loop, life, modem, wire, now, calls, urcs, rl, ril, io>>

GsStopCheck(c) ==
    /\ client[c].pc = "stop_check"
    /\ GsStopReturn(c, StopResult(gs.running))
    /\ UNCHANGED <<gs, gslot, slotlock, slotdone, gs_sockets, loop, life, modem, wire, now, calls, urcs, rl, ril, io>>

\* _gs_start returns r to _g350_bypass
GsStartReturn(c, r) ==
    /\ client' = [client EXCEPT ![c].pc = "by_unlock", ![c].ret = r,
                                ![c].res = IF r # 0 THEN "ERR_HARDWARE_INITIALIZATION_ERROR"
                                           ELSE "ERR_OK"]
    /\ it' = [NoIt EXCEPT !.kind = "gs_start", !.ret = r, !.lineTag = c]

\* _gs_start: if (!gs.talking) gs.talking = 1, and the polling begins
GsStart(c) ==
    /\ client[c].pc = "gs_start"
    /\ IF gs.talking = 0
       THEN /\ gs' = [gs EXCEPT !.talking = 1]
            /\ client' = [client EXCEPT ![c].pc = "start_poll", ![c].step = StartPolls]
       ELSE /\ gs' = gs
            /\ client' = [client EXCEPT ![c].pc = "start_check"]
    /\ it' = NoIt
    /\ UNCHANGED <<gslot, slotlock, slotdone, gs_sockets, loop, life, modem, wire, now, calls, urcs, rl, ril, io>>

\* one round of the for loop: if (gs.running) break; vosThSleep(100 ms)
GsStartPoll(c) ==
    /\ client[c].pc = "start_poll"
    /\ client[c].step > 0
    /\ client' = IF gs.running # 0 THEN [client EXCEPT ![c].pc = "start_check"]
                 ELSE [client EXCEPT ![c].step = @ - 1]
    /\ it' = NoIt
    /\ UNCHANGED <<gs, gslot, slotlock, slotdone, gs_sockets, loop, life, modem, wire, now, calls, urcs, rl, ril, io>>

GsStartTimeout(c) ==
    /\ client[c].pc = "start_poll"
    /\ client[c].step = 0
    /\ GsStartReturn(c, GS_ERR_TIMEOUT)
    /\ UNCHANGED <<gs, gslot, slotlock, slotdone, gs_sockets, loop, life, modem, wire, now, calls, urcs, rl, ril, io>>

GsStartCheck(c) ==
    /\ client[c].pc = "start_check"
    /\ GsStartReturn(c, StartResult(gs.running))
    /\ UNCHANGED <<gs, gslot, slotlock, slotdone, gs_sockets, loop, life, modem, wire, now, calls, urcs, rl, ril, io>>

\* vosSemSignal(gs.slotlock)
BypassSignal(lock) == lock + 1

\* mode == 0: after _gs_start, vosSemSignal(gs.slotlock), and the return
BypassUnlock(c) ==
    /\ client[c].pc = "by_unlock"
    /\ slotlock' = BypassSignal(slotlock)
    /\ client' = [client EXCEPT ![c].pc = "idle"]
    /\ it' = [NoIt EXCEPT !.kind = "by_unlock", !.ret = slotlock, !.lineTag = c]
    /\ UNCHANGED <<gs, gslot, slotdone, gs_sockets, loop, life, modem, wire, now, calls, urcs, rl, ril, io>>

\* the top of an iteration of _gs_loop in two steps: if (!gs.talking) is
\* tested and found false ...
LoopTalking ==
    /\ gs.initialized = 1 /\ gs.thread = 1 /\ loop.pc = "top"
    /\ gs.talking # 0
    /\ loop' = [pc |-> "checked", t0 |-> now, ss |-> 0]
    /\ it' = NoIt
    /\ UNCHANGED <<gs, gslot, slotlock, slotdone, gs_sockets, client, life, modem, wire, now, calls, urcs, rl, ril, io>>

\* ... then gs.running = 1, and gs.mode chooses the branch
LoopRunning ==
    /\ loop.pc = "checked"
    /\ gs' = [gs EXCEPT !.running = 1]
    /\ loop' = [loop EXCEPT !.pc = IF gs.mode # GS_MODE_PROMPT THEN "readline" ELSE "prompt"]
    /\ it' = NoIt
    /\ UNCHANGED <<gslot, slotlock, slotdone, gs_sockets, client, life, modem, wire, now, calls, urcs, rl, ril, io>>

BypassStep(c) ==
    \/ BypassLock(c)
    \/ GsStop(c)
    \/ GsStopPoll(c)
    \/ GsStopTimeout(c)
    \/ GsStopCheck(c)
    \/ GsStart(c)
    \/ GsStartPoll(c)
    \/ GsStartTimeout(c)
    \/ GsStartCheck(c)
    \/ BypassUnlock(c)

\* a thread calls bypass, another starts up and shuts down, and the loop
\* runs statement by statement
HandshakeNext ==
    \/ \E mode \in {0, 1} : BypassCall(1, mode)
    \/ BypassStep(1)
    \/ LoopIdle
    \/ LoopTalking
    \/ LoopRunning
    \/ LoopRead
    \/ StartupLock
    \/ StartupStop
    \/ StartupStopWait
    \/ StartupConfig
    \/ StartupStartWait
    \/ StartupUnlock
    \/ ShutdownLock
    \/ ShutdownStop
    \/ ShutdownStopWait
    \/ ShutdownUnlock

SpecHandshake == InitRunning /\ [][HandshakeNext]_vars

\* a thread calls bypass, another sends an SMS, and the loop runs statement
\* by statement, the prompt branch included
HandshakePromptNext ==
    \/ \E mode \in {0, 1} : BypassCall(1, mode)
    \/ BypassStep(1)
    \/ LoopIdle
    \/ LoopTalking
    \/ LoopRunning
    \/ LoopRead
    \/ LoopPromptPoll
    \/ LoopPromptDone
    \/ Call(2, "sms_send")
    \/ Acquire(2)
    \/ Send(2)
    \/ WaitModeOk(2)
    \/ Wait(2)
    \/ Release(2)
    \/ ModemRespond

SpecHandshakePrompt == InitRunning /\ [][HandshakePromptNext]_vars

(***************************************************************************)
(* Operator selection: the clients set the operator while the modem        *)
(* answers OK or an error, or nothing until the slot times out.            *)
(***************************************************************************)
OperNext ==
    \/ \E c \in Clients : Call(c, "set_operator")
    \/ \E c \in Clients : Acquire(c) \/ Send(c) \/ Wait(c) \/ Release(c)
    \/ LoopNormal
    \/ ModemRespond
    \/ Tick

SpecOper == InitRunning /\ [][OperNext]_vars

(***************************************************************************)
(* Socket indices the modem chooses.  gs_sockets has MAX_SOCKS entries; an *)
(* access to gs_sockets[id] with id outside them reads or writes the       *)
(* memory that follows the table: the thread goes on with what it found    *)
(* there, or anything happens ("undefined").                               *)
(***************************************************************************)
\* the socket indices the modem sends: the first, the last, and two past
\* the end of the table
ModemSocketIds == {0, MAX_SOCKS - 1, MAX_SOCKS, MAX_SOCKS + 2}

MaxIndexCalls == 2

SockIndexValid(id) == id \in 0..(MAX_SOCKS - 1)

SocketUrcs == {GS_CMD_UUSOCL, GS_CMD_UUSORD, GS_CMD_UUSORF}

\* the lines '+UUSOCL: id', '+UUSORD: id,4' and '+UUSORF: id,4'
SocketUrcLine(cmdid, id) ==
    IF cmdid = GS_CMD_UUSOCL THEN ParamLine(cmdid, <<48 + id>>)
    ELSE ParamLine(cmdid, <<48 + id, 44, 52>>)

\* the index _gs_handle_urc gives to _gs_socket_closing or
\* _gs_socket_pending for the URC in buffer, NULL when it calls neither
UrcSocketId(buffer, bytes, cmdid) ==
    LET p == _gs_valid_command_response(buffer, bytes, GS_GET_CMD(cmdid))
        b == SubSeq(buffer, p + 1, bytes)
        a1 == _gs_parse_command_arguments(b, <<"i">>)
        a2 == _gs_parse_command_arguments(b, <<"i", "i">>)
    IN  IF p = 0 THEN NULL
        ELSE IF cmdid = GS_CMD_UUSOCL THEN (IF Len(a1) < 1 THEN NULL ELSE a1[1])
        ELSE IF cmdid \in {GS_CMD_UUSORD, GS_CMD_UUSORF} THEN (IF Len(a2) < 2 THEN NULL ELSE a2[1])
        ELSE NULL

\* the index the loop will use for the line that is next on the wire
NextUrcSocketId ==
    LET chunk == IF wire = <<>> THEN NoChunk ELSE Head(wire)
        o == LineOutcome(chunk.bytes, Len(chunk.bytes), _gs_readline(chunk), gs.slot, gslot, now)
    IN  IF o.urc = NULL THEN NULL ELSE UrcSocketId(chunk.bytes, Len(chunk.bytes), o.urc)

\* the index _gs_usocr gives to _gs_socket_new from the slot s of the
\* client cl, NULL when it does not call it
CreatedSocketId(cl, s) ==
    LET a == _gs_parse_command_arguments(s.resp, <<"i">>)
    IN  IF cl.op = "socket_create" /\ s.err = 0 /\ Len(a) = 1 THEN a[1] ELSE NULL

\* the modem sends a socket URC with the index id
ModemSocketUrc(cmdid, id) == ModemUrc(SocketUrcLine(cmdid, id))

\* the modem answers +USOCR with the index id
ModemCreated(id) ==
    /\ modem # <<>>
    /\ Head(modem).cmd = GS_CMD_USOCR /\ Head(modem).stage = "received"
    /\ Len(wire) < MaxWire
    /\ wire' = Append(wire, [bytes |-> ParamLine(GS_CMD_USOCR, <<48 + id>>), tag |-> Head(modem).tag])
    /\ modem' = <<[Head(modem) EXCEPT !.stage = "info"]>> \o Tail(modem)
    /\ it' = NoIt
    /\ UNCHANGED <<gs, gslot, slotlock, slotdone, gs_sockets, loop, client, life, now, calls, urcs, rl, ril, io>>

\* an iteration of the loop whose line makes no access outside the table
LoopInside ==
    /\ NextUrcSocketId = NULL \/ SockIndexValid(NextUrcSocketId)
    /\ LoopNormal

\* an iteration of the loop on a socket URC with an index outside the
\* table: _gs_socket_closing / _gs_socket_pending take &gs_sockets[id],
\* wait and signal what is there as semaphores and write to_be_closed
LoopOutside ==
    /\ gs.initialized = 1 /\ gs.thread = 1 /\ loop.pc = "top"
    /\ gs.talking # 0
    /\ gs.mode # GS_MODE_PROMPT
    /\ NextUrcSocketId # NULL /\ ~SockIndexValid(NextUrcSocketId)
    /\ \E pc \in {"top", "undefined"} : loop' = [loop EXCEPT !.pc = pc]
    /\ gs' = [gs EXCEPT !.running = 1]
    /\ wire' = Tail(wire)
    /\ it' = [NoIt EXCEPT !.kind = "line", !.line = Head(wire).bytes, !.ret = Len(Head(wire).bytes),
                          !.preSlot = gs.slot, !.pre = gslot, !.preMode = gs.mode,
                          !.urc = LineOutcome(Head(wire).bytes, Len(Head(wire).bytes),
                                              _gs_readline(Head(wire)), gs.slot, gslot, now).urc]
    /\ UNCHANGED <<gslot, slotlock, slotdone, gs_sockets, client, life, modem, now, calls, urcs, rl, ril, io>>

\* the result is read with an index inside the table, or without index
ReleaseInside(c) ==
    /\ client[c].pc = "release"
    /\ CreatedSocketId(client[c], gslot) = NULL \/ SockIndexValid(CreatedSocketId(client[c], gslot))
    /\ Release(c)

\* _gs_usocr reads an index outside the table: _gs_socket_new takes
\* &gs_sockets[id]; with what is there read as not acquired it writes the
\* entry and the index is returned as the new socket, else the socket is
\* closed again; then _gs_release_slot
ReleaseOutside(c) ==
    /\ client[c].pc = "release"
    /\ CreatedSocketId(client[c], gslot) # NULL
    /\ ~SockIndexValid(CreatedSocketId(client[c], gslot))
    /\ LET id == CreatedSocketId(client[c], gslot) IN
       /\ \E x \in {"idle", "acquire", "undefined"} :
             client' = [client EXCEPT ![c] =
                           IF x = "acquire"
                           THEN [@ EXCEPT !.pc = "acquire", !.op = "usocr_close", !.sock = id]
                           ELSE [@ EXCEPT !.pc = x, !.res = "ERR_OK", !.ret = id, !.sock = id]]
       /\ it' = [NoIt EXCEPT !.kind = IF client'[c].pc = "acquire" THEN "collision" ELSE "created",
                             !.ret = id]
    /\ gslot' = ZeroSlot
    /\ slotlock' = ReleaseLock(slotlock, "none")
    /\ UNCHANGED <<gs, slotdone, gs_sockets, loop, life, modem, wire, now, calls, urcs, rl, ril, io>>

IndexCall(c) ==
    /\ calls < MaxIndexCalls
    /\ CallSocket(c, "socket_create", <<6>>)

IndexNext ==
    \/ IndexCall(1)
    \/ Acquire(1)
    \/ Send(1)
    \/ Wait(1)
    \/ ReleaseInside(1)
    \/ ReleaseOutside(1)
    \/ LoopInside
    \/ LoopOutside
    \/ ModemRespond
    \/ \E id \in ModemSocketIds : ModemCreated(id)
    \/ \E cmdid \in SocketUrcs : \E id \in ModemSocketIds : ModemSocketUrc(cmdid, id)

SpecIndex == InitRunning /\ [][IndexNext]_vars

(***************************************************************************)
(* The receive timeout: a client creates a TCP socket and receives from    *)
(* it, another sets the receive timeout of the open socket, time passes.   *)
(***************************************************************************)
\* the option values: none, one second, the smallest that does not fit 16
\* bits, and one second more than that
TimeoutValues == {0, 1000, 65536, 66536}

\* setsockopt(0, SOL_SOCKET, SO_RCVTIMEO, T) on the open socket
TimeoSet(c, T) ==
    /\ _gs_socket_get(gs_sockets, 0)
    /\ CallSocket(c, "setsockopt", <<0, 65535, 1, T>>)

TimeoNext ==
    \/ CallSocket(1, "socket_create", <<6>>)
    \/ CallSocket(1, "recv", <<0, 4>>)
    \/ \E T \in TimeoutValues : TimeoSet(2, T)
    \/ SockClientStep(1)
    \/ WaitRxTimeout(1)
    \/ LoopNormal
    \/ ModemRespond
    \/ ModemUrc(UrcUUSORD)
    \/ Tick

SpecTimeo == InitRunning /\ [][TimeoNext]_vars

(***************************************************************************)
(* Properties                                                              *)
(***************************************************************************)
\* a client between its _gs_acquire_slot and its _gs_release_slot
Holds(c) == client[c].pc \in {"send", "waitmode", "wait", "release"}

Holders == {c \in Clients : Holds(c)}

\* C1 - slot mutual exclusion: in every interleaving of the client threads
\* at most one of them holds the slot, the slot then carries the holder's
\* command, and the lock is taken, so that any other acquire blocks until
\* the holder has released.
C1_SlotMutualExclusion ==
    /\ Cardinality(Holders) <= 1
    /\ slotlock \in {0, 1}
    /\ \A c \in Holders :
          /\ slotlock = 0
          /\ gslot.tag = client[c].tag
          /\ gslot.cmd = Exchange(client[c].op).cmd

\* C1 witness: one client holds the slot while the other is blocked in
\* _gs_acquire_slot
C1_Witness ==
    \E c, d \in Clients : c # d /\ Holds(c) /\ client[d].pc = "acquire" /\ slotlock = 0

\* the last iteration applied its line to the slot: it completed the slot
\* with OK or ERROR, or stored the line as a parameter line
LineApplied ==
    /\ it.kind = "line"
    /\ it.preSlot
    /\ it.signalled \in {"ok", "error"} \/ it.filled

\* C2 - no misattribution: a line the loop applies to the active slot was
\* sent by the modem in answer to the command of that slot's owner.
C2_NoMisattribution == LineApplied => it.lineTag = it.pre.tag

\* C2 witness: a line is applied to the slot of the command it answers
C2_Witness == LineApplied /\ it.lineTag = it.pre.tag

\* C3 - bounded timeout response: an iteration of the loop that starts with
\* the active slot past its deadline signals the slot with TIMEOUT,
\* whatever the modem sent and in either mode.
C3_BoundedTimeout ==
    (it.kind \in {"noline", "line", "prompt", "promptexit"} /\ it.expired)
        => (it.signalled = "timeout" /\ ~gs.slot /\ gslot.err = GS_ERR_TIMEOUT)

\* C3 witness: an expired slot is signalled with TIMEOUT by a poll
C3_Witness == it.kind = "noline" /\ it.expired /\ it.signalled = "timeout"

\* C4 - timeout liveness: with the loop running and the modem silent, the
\* owner blocked in _gs_wait_for_slot is woken with err = TIMEOUT, once (the
\* signal is taken by the wake-up and none is left on slotdone when the slot
\* is released or acquired), and a client blocked in _gs_acquire_slot gets
\* the slot.
C4_TimeoutLiveness ==
    /\ \A c \in Clients :
          (client[c].pc = "wait") ~> (client[c].pc = "release" /\ client[c].err = GS_ERR_TIMEOUT)
    /\ \A c \in Clients : (client[c].pc = "acquire") ~> (client[c].pc = "send")
    /\ [](slotdone \in {0, 1})
    /\ []((\A c \in Clients : client[c].pc \in {"idle", "acquire", "release"}) => slotdone = 0)

\* C4 witness: after a client's operation timed out and released the slot,
\* the acquire that follows has succeeded and no signal is left on slotdone
C4_Witness ==
    \E c, d \in Clients :
        /\ client[c].pc = "idle" /\ client[c].err = GS_ERR_TIMEOUT
        /\ client[d].tag > client[c].tag
        /\ client[d].pc = "send" /\ gslot.tag = client[d].tag
        /\ slotdone = 0

\* C5 - invalid state is surfaced immediately: an operation invoked while
\* the loop is not running does not get to the modem: its caller never
\* holds the slot, writes a command or blocks for the completion.
C5_InvalidStateSurfaced ==
    \A c \in Clients : client[c].down => ~Holds(c)

\* C5 witness: the caller is blocked in _gs_wait_for_slot, its command
\* written, with the loop thread never created
C5_WitnessBlocked ==
    \E c \in Clients :
        /\ client[c].down /\ client[c].pc = "wait"
        /\ gs.thread = 0 /\ modem # <<>>

\* the URC-flagged command a line starts with, or NULL
UrcOf(l) ==
    LET cmd == _gs_parse_command_response(l) IN
    IF cmd # NULL /\ IsUrc(cmd) THEN cmd ELSE NULL

UrcCommands ==
    {GS_CMD_CIEV, GS_CMD_CREG, GS_CMD_CGREG, GS_CMD_CMTI, GS_CMD_UUPSDA,
     GS_CMD_UUSOCL, GS_CMD_UUSORD, GS_CMD_UUSORF}

\* the last iteration read an unsolicited line of a URC-flagged command
ReadUrc == it.kind = "line" /\ it.lineTag = 0 /\ UrcOf(it.line) \in UrcCommands

\* C6 - URC dispatch is independent of the slot: every unsolicited line of
\* a URC-flagged command is passed to the URC dispatcher, with no slot or
\* with a slot active for any command, and is not taken for the slot.
C6_UrcDispatch == ReadUrc => (it.urc = UrcOf(it.line) /\ ~it.filled)

\* C6 witness: a URC is dispatched while a slot is active
C6_Witness ==
    /\ ReadUrc /\ it.preSlot /\ it.urc = GS_CMD_UUPSDA /\ gs.attached = 1

\* the condition of the OK rule on the slot as the iteration found it
ParamsComplete == it.pre.params = it.pre.has_params \/ it.pre.cmd = GS_CMD_CMGL

\* C7 - OK completion rule: with a slot active and the line OK read, the
\* slot is completed with OK if and only if the parameter lines counted
\* equal the expected number or the command is +CMGL; otherwise the slot
\* stays active with all its fields as they were.
C7_OkCompletionRule ==
    (it.kind = "line" /\ it.line = LineOK /\ it.preSlot) =>
        /\ it.signalled = "ok" <=> ParamsComplete
        /\ ParamsComplete => (~gs.slot /\ gslot = [it.pre EXCEPT !.err = GS_ERR_OK])
        /\ ~ParamsComplete => (it.signalled = "none" /\ gs.slot /\ gslot = it.pre)

\* C7 witness: the OK of an empty SMS listing completes a +CMGL slot that
\* expected a parameter line and got none
C7_Witness ==
    /\ it.kind = "line" /\ it.line = LineOK /\ it.preSlot
    /\ it.pre.cmd = GS_CMD_CMGL /\ it.pre.params # it.pre.has_params
    /\ it.signalled = "ok"

\* C7, the other side: an OK that does not complete the slot
C7_WitnessUnexpectedOk ==
    /\ it.kind = "line" /\ it.line = LineOK /\ it.preSlot
    /\ ~ParamsComplete /\ gs.slot /\ gslot = it.pre

StrCMS == <<43, 67, 77, 83, 32, 69, 82, 82, 79, 82, 58, 32>>  \* '+CMS ERROR: '

\* a terminal error line, as the modem sends them
IsErrorTerminal(l) ==
    \/ memcmp(l, StrCME, 12) = 0
    \/ memcmp(l, StrCMS, 12) = 0
    \/ memcmp(l, StrERROR, 5) = 0

\* C8 - modem error terminals fail the slot: with a slot active, reading
\* '+CME ERROR: ...', '+CMS ERROR: ...' or 'ERROR' completes the slot with
\* ERROR in that iteration, and at most MAX_ERR_LEN bytes of a +CME message
\* are stored.
C8_ErrorTerminals ==
    (it.kind = "line" /\ it.preSlot /\ IsErrorTerminal(it.line)) =>
        /\ it.signalled = "error"
        /\ ~gs.slot
        /\ gs.errlen <= MAX_ERR_LEN /\ Len(gs.errmsg) <= MAX_ERR_LEN

\* C8 witness: a +CME ERROR line longer than the buffer fails the slot
C8_Witness ==
    /\ it.kind = "line" /\ it.preSlot /\ it.line = LineCME
    /\ it.signalled = "error" /\ gs.errlen = MAX_ERR_LEN

\* C9 - timeout error mapping: an operation whose slot completed with
\* TIMEOUT returns the timeout error kind.
C9_TimeoutMapping ==
    \A c \in Clients :
        (client[c].pc = "idle" /\ client[c].op \in {"socket_connect", "attach"}
         /\ client[c].err = GS_ERR_TIMEOUT)
            => client[c].res = "ERR_TIMEOUT_EXC"

\* C9 witness: _gs_attach maps the TIMEOUT of its slot to the timeout kind
C9_Witness ==
    \E c \in Clients :
        /\ client[c].pc = "idle" /\ client[c].op = "attach"
        /\ client[c].err = GS_ERR_TIMEOUT /\ client[c].res = "ERR_TIMEOUT_EXC"

\* the last iteration read the modem's prompt, a '>' with no line end
ReadPrompt == it.kind = "noline" /\ Len(it.line) >= 1 /\ it.line[1] = 62

PromptCapable == it.preSlot /\ it.pre.cmd \in {GS_CMD_USECMNG, GS_CMD_CMGS}

\* C10 - prompt gating: the loop goes from Normal to Prompt mode only on a
\* '>' read with a slot active for +USECMNG or +CMGS.  On a '>' read with
\* any other slot, or with none, the mode stays Normal and the iteration
\* does what it does when no line came: it neither completes the slot with
\* a result nor stores anything in it, and leaves it as it was unless its
\* deadline has passed.
C10_PromptGating ==
    /\ (it.kind \in {"noline", "line"} /\ gs.mode = GS_MODE_PROMPT)
          => (ReadPrompt /\ PromptCapable)
    /\ (ReadPrompt /\ PromptCapable) => (gs.mode = GS_MODE_PROMPT /\ gslot = it.pre)
    /\ (ReadPrompt /\ ~PromptCapable) =>
          /\ gs.mode = GS_MODE_NORMAL
          /\ it.signalled \in {"none", "timeout"}
          /\ ~it.filled
          /\ gs.slot = (it.preSlot /\ ~it.expired)
          /\ gslot = IF it.expired THEN [it.pre EXCEPT !.err = GS_ERR_TIMEOUT] ELSE it.pre

\* C10 witness: a late '>' is read while a slot is active for a command
\* that takes no prompt
C10_Witness ==
    /\ ReadPrompt /\ it.preSlot /\ ~PromptCapable /\ ~it.expired
    /\ gs.mode = GS_MODE_NORMAL /\ gslot = it.pre

\* C10, the other side: the prompt of +CMGS switches the loop to Prompt mode
C10_WitnessGated == ReadPrompt /\ PromptCapable /\ gs.mode = GS_MODE_PROMPT

\* the commands a create that met a taken entry has written: +USOCR for a
\* TCP socket, then +USOCL for the index the modem gave (0)
CollisionCommands ==
    <<[cmd |-> GS_CMD_USOCR, args |-> <<6>>], [cmd |-> GS_CMD_USOCL, args |-> <<0>>]>>

\* C11 - socket create collision: when +USOCR gives an index whose entry is
\* acquired, the entry is left as it was and the create goes on to close
\* that index; it returns a failure only after +USOCL was written for
\* exactly that index.  A create succeeds only on an entry that was not
\* acquired, so two successful creates never give the same index unless the
\* entry was released in between.
C11_CreateCollision ==
    /\ it.kind = "collision" =>
          /\ it.sockPre.acquired # 0
          /\ gs_sockets[it.ret] = it.sockPre
          /\ \E c \in Clients :
                /\ client[c].pc = "acquire" /\ client[c].op = "usocr_close"
                /\ client[c].sock = it.ret
    /\ it.kind = "created" =>
          /\ it.sockPre.acquired = 0
          /\ gs_sockets[it.ret].acquired = 1
    /\ \A c \in Clients :
          (client[c].pc = "idle" /\ client[c].op = "usocr_close") =>
              /\ client[c].res = "ERR_IOERROR_EXC"
              /\ client[c].sent = CollisionCommands

\* C11 witness: a create that collided with socket 0, acquired by an
\* earlier create, has closed index 0 and returned the failure
C11_Witness ==
    \E c \in Clients :
        /\ client[c].pc = "idle" /\ client[c].op = "usocr_close"
        /\ client[c].res = "ERR_IOERROR_EXC"
        /\ client[c].sent = CollisionCommands
        /\ gs_sockets[0].acquired = 1

\* the last iteration dispatched the remote close of the socket a stream
\* receive is waiting on
CloseWhileWaiting(c) ==
    /\ it.kind = "line" /\ it.urc = GS_CMD_UUSOCL /\ it.line = UrcUUSOCL
    /\ client[c].pc = "waitrx" /\ client[c].op = "recv" /\ client[c].sock = 0

C12_WitnessLaterRecv ==
    /\ it.kind = "called" /\ client[it.ret].api = "recv"
    /\ it.sockPre.acquired = 1 /\ it.sockPre.to_be_closed = 1
    /\ client[it.ret].res = "ERR_IOERROR_EXC" /\ client[it.ret].sent = <<>>

\* a client suspended in _gs_socket_wait_rx
Receiving(c) == client[c].pc = "waitrx" /\ client[c].op \in {"recv", "recvfrom"}

\* C13 - a blocked receiver does not hold the slot: while a client of recv
\* or recvfrom is suspended on the rx semaphore of its socket, the lock is
\* free unless another client holds the slot, and an active slot is that
\* other client's.
C13_ReceiverFreesSlot ==
    \A c \in Clients : Receiving(c) =>
        /\ slotlock = 1 - Cardinality(Holders)
        /\ gs.slot => (\E d \in Holders : d # c /\ gslot.tag = client[d].tag)

\* C13 witness: with client 1 suspended in a receive, client 2 has acquired
\* the slot and its command has been answered with OK; it is about to
\* release the slot
C13_Witness ==
    \E c, d \in Clients :
        /\ c # d /\ Receiving(c)
        /\ client[d].pc = "release" /\ client[d].op = "attach"
        /\ client[d].err = GS_ERR_OK /\ gslot.tag = client[d].tag

\* C13, the exchange released: the attach called after the receive has
\* returned while the receiver is still suspended
C13_WitnessReleased ==
    \E c, d \in Clients :
        /\ c # d /\ Receiving(c) /\ slotlock = 1
        /\ client[d].pc = "idle" /\ client[d].op = "attach"
        /\ client[d].res = "ERR_OK" /\ client[d].tag > client[c].tag

\* the last step was a call of set-option on an acquired socket that is not
\* to be closed
SetOptionCalled ==
    /\ it.kind = "called" /\ client[it.ret].api = "setsockopt"
    /\ it.sockPre.acquired # 0 /\ it.sockPre.to_be_closed = 0

OptLevel == client[it.ret].args[2]

OptName == client[it.ret].args[3]

\* the call returned at once, with success and nothing written
ReturnedAtOnce ==
    /\ client[it.ret].pc = "idle" /\ client[it.ret].res = "ERR_OK"
    /\ client[it.ret].sent = <<>>

\* C16 - socket option effects: set-option on an acquired socket that is not
\* to be closed starts a +USOSO exchange only for option 8 at level 0xFFFF;
\* option 1 at level 0xFFFF stores the value as the receive timeout of the
\* entry and returns; any other pair returns success with the entry as it
\* was and nothing written to the modem.
C16_SetOptionEffects ==
    SetOptionCalled =>
        CASE OptLevel = 65535 /\ OptName = 8 ->
                /\ client[it.ret].pc = "acquire" /\ client[it.ret].op = "setsockopt"
                /\ gs_sockets[client[it.ret].args[1]] = it.sockPre
          [] OptLevel = 65535 /\ OptName = 1 ->
                /\ ReturnedAtOnce
                /\ gs_sockets[client[it.ret].args[1]] =
                       [it.sockPre EXCEPT !.timeout = client[it.ret].args[4]]
          [] OTHER ->
                /\ ReturnedAtOnce
                /\ gs_sockets[client[it.ret].args[1]] = it.sockPre

\* C16 witness: option 1 at level 0xFFFF stores the receive timeout and
\* writes nothing
C16_Witness ==
    /\ SetOptionCalled /\ OptLevel = 65535 /\ OptName = 1
    /\ ReturnedAtOnce
    /\ it.sockPre.timeout = 0 /\ gs_sockets[client[it.ret].args[1]].timeout = 1000

\* C16, the command of option 8 at level 1: +USOSO is written, with level 1
C16_WitnessLevel1 ==
    \E c \in Clients :
        /\ client[c].api = "setsockopt" /\ client[c].args[2] = 1 /\ client[c].args[3] = 8
        /\ client[c].sent = <<[cmd |-> GS_CMD_USOSO, args |-> <<0, 1, 8, 1>>]>>

\* the client's secure-socket creation returned a socket that was put under
\* the TLS profile, and the socket is still open
Secured(c) ==
    /\ client[c].pc = "idle" /\ client[c].api = "secure_socket"
    /\ client[c].res = "ERR_OK" /\ client[c].op = "tls_set" /\ client[c].err = GS_ERR_OK
    /\ gs_sockets[client[c].ret].acquired = 1
    /\ gs_sockets[client[c].ret].to_be_closed = 0

\* C14 - at most one TLS socket: at most one open socket is under the TLS
\* profile at any time, so that two secure-socket creations never both
\* succeed; a secure-socket creation called while secure_sock_id is not -1
\* fails at once with nothing written to the modem.
C14_AtMostOneTls ==
    /\ Cardinality({c \in Clients : Secured(c)}) <= 1
    /\ (it.kind = "called" /\ client[it.ret].api = "secure_socket" /\ gs.secure_sock_id # NULL) =>
          /\ client[it.ret].pc = "idle"
          /\ client[it.ret].res = "ERR_IOERROR_EXC"
          /\ client[it.ret].sent = <<>>

\* C14 witness: a secure-socket creation called while a TLS socket exists
\* fails at once
C14_Witness ==
    /\ it.kind = "called" /\ client[it.ret].api = "secure_socket" /\ gs.secure_sock_id # NULL
    /\ client[it.ret].pc = "idle" /\ client[it.ret].res = "ERR_IOERROR_EXC"
    /\ client[it.ret].sent = <<>>
    /\ \E d \in Clients : d # it.ret /\ Secured(d)

\* C14, the two TLS sockets: both creations succeeded, on sockets 0 and 1
C14_WitnessTwo ==
    /\ \A c \in Clients : Secured(c)
    /\ client[1].ret # client[2].ret

\* the last step was the return of a secure-socket creation with success
SecureReturned ==
    /\ it.kind = "returned" /\ client[it.ret].api = "secure_socket"
    /\ client[it.ret].res = "ERR_OK"

\* C15 - a successful secure-socket creation yields a secured socket: when
\* the creation returns success with a socket index, the +USOSEC command
\* for that socket was completed with OK and secure_sock_id is the index.
C15_SecuredOnSuccess ==
    SecureReturned =>
        /\ client[it.ret].op = "tls_set" /\ client[it.ret].err = GS_ERR_OK
        /\ gs.secure_sock_id = client[it.ret].ret

\* C15 witness: a creation returns with +USOSEC completed with OK and
\* secure_sock_id set to the socket
C15_Witness ==
    /\ SecureReturned
    /\ client[it.ret].op = "tls_set" /\ client[it.ret].err = GS_ERR_OK
    /\ gs.secure_sock_id = client[it.ret].ret
    /\ gs_sockets[client[it.ret].ret].acquired = 1

\* C15, the unsecured success: +USOSEC failed, the creation returns success
\* and no socket is recorded as the TLS socket
C15_WitnessUnsecured ==
    /\ SecureReturned /\ client[it.ret].err # GS_ERR_OK
    /\ gs.secure_sock_id = NULL

\* the last step updated the registration from a +CREG or +CGREG line: a
\* URC dispatched by the loop, or the answer to a query of _gs_check_network
RegistrationUpdated ==
    \/ it.kind = "line" /\ it.urc \in {GS_CMD_CREG, GS_CMD_CGREG}
    \/ /\ it.kind = "returned"
       /\ client[it.ret].op = "gs_check_network_cgreg" /\ client[it.ret].err = GS_ERR_OK

GprsRegistered == gs.gprs_status \in {GS_REG_OK, GS_REG_ROAMING}

\* C17 (as stated) - registration summary: after an update from +CREG or +CGREG, URC or
\* query, gs.registered is the GPRS registration status if GPRS is
\* registered (OK or roaming) and the GSM registration status otherwise.
C17_RegistrationSummary ==
    RegistrationUpdated =>
        gs.registered = IF GprsRegistered THEN gs.gprs_status ELSE gs.gsm_status

\* C17, as the code has it: after an update from +CREG or +CGREG, URC or
\* query, gs.registered is the GPRS registration status if GPRS is
\* registered (OK or roaming) and GS_REG_NOT otherwise, whatever the GSM
\* registration status.
C17_RegisteredIsGprs ==
    RegistrationUpdated =>
        gs.registered = IF GprsRegistered THEN gs.gprs_status ELSE GS_REG_NOT

\* C17 witness: with GPRS registered, roaming, the summary is the GPRS status
C17_Witness ==
    /\ RegistrationUpdated /\ GprsRegistered
    /\ gs.gprs_status = GS_REG_ROAMING /\ gs.registered = GS_REG_ROAMING

\* C17, GSM only: registered to GSM and not to GPRS, the summary is "not
\* registered"
C17_WitnessGsmOnly ==
    /\ RegistrationUpdated /\ ~GprsRegistered
    /\ gs.gsm_status = GS_REG_OK /\ gs.registered = GS_REG_NOT

\* the loop thread is in _gs_readline
LoopReading == loop.pc = "readline"

\* startup is in _gs_poweron / _gs_config0, which it enters only after a
\* successful _gs_stop, or shutdown is past its _gs_stop: the caller reads
\* the serial port with _gs_wait_for_ok
LifeReading ==
    \/ life.pc = "su_config" /\ life.err = "ERR_OK"
    \/ life.pc = "sd_off"

\* C18 - single reader: the loop thread and a startup or shutdown never
\* read the serial port at the same time, and startup and shutdown read it
\* only with the loop stopped (gs.running = 0).
C18_SingleReader ==
    /\ ~(LoopReading /\ LifeReading)
    /\ LifeReading => gs.running = 0

\* C18 witness: shutdown reads the serial port after a _gs_stop that found
\* the loop stopped
C18_Witness ==
    /\ life.pc = "sd_off" /\ life.err = "ERR_OK"
    /\ gs.thread = 1 /\ gs.running = 0 /\ loop.pc = "top"

\* C18, the two readers: shutdown reads after a _gs_stop that timed out,
\* with the loop thread in _gs_readline
C18_WitnessTwoReaders ==
    /\ life.pc = "sd_off" /\ life.err = "ERR_HARDWARE_INITIALIZATION_ERROR"
    /\ LoopReading /\ gs.running = 1

\* C18, startup: it never reads with the loop running
C18_StartupReadsStopped ==
    (life.pc = "su_config" /\ life.err = "ERR_OK") => (gs.running = 0 /\ ~LoopReading)

\* C19 - over-long lines are safe: whatever the length of the modem's line,
\* _gs_readline writes inside gs.buffer only and gs.bytes stays below its
\* size, the thread goes on, and the reading stops at the line feed or with
\* a full buffer, the rest of the line being left to the next call.
C19_LongLinesSafe ==
    /\ rl.bytes < MAX_CMD
    /\ rl.top < MAX_CMD
    /\ rl.pc # "undefined"
    /\ rl.pc = "terminate" => (rl.rest = 0 \/ rl.bytes = MAX_BUF - 1)

\* C19 witness: the longest line that fits, MAX_CMD - 1 bytes, is read and
\* terminated inside gs.buffer
C19_Witness ==
    /\ rl.pc = "idle" /\ rl.ret = MAX_CMD - 1 /\ rl.rest = 0
    /\ rl.top = MAX_CMD - 1

\* C19, the overflow: _gs_readline returns MAX_BUF - 1 bytes of a longer
\* line, having written up to gs.buffer[MAX_BUF - 1]
C19_WitnessOverflow ==
    /\ rl.pc = "idle" /\ rl.ret = MAX_BUF - 1 /\ rl.rest > 0
    /\ rl.top = MAX_BUF - 1

\* C20 - parser cursor invariant: after every operation of the parser, for
\* every byte read (0x00 included), read error and timeout, 0 <= index <=
\* count <= buf_max; and res_ok leaves the bytes that were between index
\* and count at the start of the buffer, with count reduced by index and
\* index = 0.
C20_CursorInvariant ==
    /\ CursorValid
    /\ ril.last.op = "res_ok" =>
          /\ ril.index = 0
          /\ ril.count = ril.last.count - ril.last.index
          /\ ril.buf = SubSeq(ril.last.buf, ril.last.index + 1, ril.last.count)

\* C20 witness: res_ok, made with one byte matched and one more byte read,
\* keeps the byte not matched
C20_Witness ==
    /\ ril.last.op = "res_ok" /\ ril.last.index = 1 /\ ril.last.count = 2
    /\ ril.index = 0 /\ ril.count = 1 /\ ril.buf = <<ril.last.buf[2]>>

\* C20, the cursor out of the buffer: match_char, made with nothing in the
\* buffer, leaves index = SIZE_MAX
C20_WitnessUnderflow ==
    /\ ril.last.op = "match_char" /\ ril.last.index = 0 /\ ril.last.count = 0
    /\ ril.error = 0 /\ ril.index = 0 - 1

(***************************************************************************)
(* Properties of libril                                                    *)
(***************************************************************************)
\* the matchers that commit or roll back
Matchers == {"str", "eol", "line", "int", "uint", "hex", "query", "echo", "final"}

\* the bytes among what the read callback returned
RECURSIVE Bytes(_)
Bytes(in) ==
    IF in = <<>> THEN <<>>
    ELSE IF Head(in) >= 0 THEN <<Head(in)>> \o Bytes(Tail(in))
    ELSE Bytes(Tail(in))

\* the bytes the last call read from the transport
BytesRead == Bytes(io.read)

\* the last call was a matcher that ran, failed and rolled back
RolledBack ==
    /\ ril.last.op \in Matchers
    /\ io.preError = 0
    /\ io.ret = 0
    /\ ril.error # 0

C21_WitnessEcho ==
    /\ RolledBack /\ ril.last.op = "echo"
    /\ ril.last.buf # <<>> /\ ril.buf = BytesRead

\* the last call was one of the matchers of a number, a string, a line or
\* a final result, and a read of the transport timed out during it after
\* the matcher had bytes of its input
TimedOutInside ==
    /\ ril.last.op \in {"int", "uint", "hex", "str", "line", "final"}
    /\ io.preError = 0
    /\ io.timeout
    /\ ril.last.buf \o BytesRead # <<>>

\* C22 - timeout inside a match: when the read times out while rsp_int,
\* rsp_uint, rsp_hex, rsp_str, rsp_line or rsp_final is part-way through
\* its input, the error is RSP_READ_TIMEOUT, the cursor is 0 and no byte
\* has been consumed from the buffer.
C22_TimeoutInsideMatch ==
    TimedOutInside =>
        /\ ril.error = 0 - RIL_ERR_RSP_READ_TIMEOUT
        /\ ril.index = 0
        /\ io.ret = 0
        /\ ril.buf = ril.last.buf \o BytesRead

\* C22 witness: ril_rsp_int was given digits and then a timeout, has
\* returned their count and has taken them out of the buffer
C22_Witness ==
    /\ TimedOutInside /\ ril.last.op = "int"
    /\ io.ret > 0 /\ ril.buf = <<>>
    /\ ril.error = 0 - RIL_ERR_RSP_READ_TIMEOUT

\* C22, the protocol error: ril_rsp_str was given the start of its string
\* and then a timeout, and the error is the one of the matcher
C22_WitnessStr ==
    /\ TimedOutInside /\ ril.last.op = "str"
    /\ BytesRead # <<>>
    /\ ril.error = 0 - RIL_ERR_RSP_STR

\* _at_read was called with no error set and an empty buffer, wrote its
\* command, and the modem had answered with the response
ReadExchange(response) ==
    /\ ril.last.op = "at_read"
    /\ io.preError = 0
    /\ ril.last.buf = <<>>
    /\ io.out = StrAT \o StrCMEE \o <<63>> \o CRLF
    /\ io.pre = response

\* C25 - end-to-end read exchange: on a response made of a blank line or
\* the echoed command, the information line '+CMEE: 2', a blank line and
\* 'OK', _at_read ends with error 0, the integer 2 and an empty buffer;
\* with '+CME ERROR: 3' in the place of 'OK' it ends with FINAL_CME and
\* cm_err = 3.
C25_ReadExchange ==
    /\ ReadExchange(ResponseOk) \/ ReadExchange(ResponseEchoOk) =>
          /\ ril.error = 0 /\ io.ret = 0
          /\ io.val = 2
          /\ ril.buf = <<>> /\ ril.count = 0 /\ io.in = <<>>
    /\ ReadExchange(ResponseInfoCme) =>
          /\ ril.error = 0 - RIL_ERR_RSP_FINAL_CME
          /\ io.arg = <<3>>

\* C25 witness: the response with the blank line before 'OK' was read, the
\* integer was returned and the exchange ended with FINAL_UNKNOWN, the
\* blank line and 'OK' left unread
C25_Witness ==
    /\ ReadExchange(ResponseOk)
    /\ io.val = 2
    /\ ril.error = 0 - RIL_ERR_RSP_FINAL_UNKNOWN
    /\ ril.buf \o io.in = CRLF \o LineOK

\* C25, the error answer: '+CME ERROR: 3' after the information line and a
\* blank line ends the exchange with FINAL_UNKNOWN and no cm_err
C25_WitnessCme ==
    /\ ReadExchange(ResponseInfoCme)
    /\ ril.error = 0 - RIL_ERR_RSP_FINAL_UNKNOWN
    /\ io.arg = <<0 - 1>>

\* C25, the response without the blank line: the exchange ends with error
\* 0, the integer and an empty buffer
C25_WitnessDense ==
    /\ ReadExchange(ResponseDense)
    /\ ril.error = 0 /\ io.val = 2
    /\ ril.buf = <<>> /\ io.in = <<>>

\* the primitives of the writer
CmdOps ==
    {"cmd_char", "cmd_charn", "cmd_eol", "cmd_str", "cmd_strn", "cmd_strqqe", "cmd_at",
     "cmd_atc", "cmd_atco", "cmd_query", "cmd_int", "cmd_uint", "cmd_hex", "cmd_printf"}

\* C23 - sticky writer error: a primitive of the writer called with the
\* error set writes no byte to the transport and returns 0.
C23_StickyWriterError ==
    ril.last.op \in CmdOps /\ io.preError # 0 => io.out = <<>> /\ io.ret = 0

\* C23 witness: ril_cmd_char was called with the error set, has written
\* its byte and has returned 1
C23_Witness ==
    /\ ril.last.op = "cmd_char" /\ io.preError # 0
    /\ io.out = <<69>> /\ io.ret = 1
    /\ ril.error = io.preError

\* C23, ril_cmd_atc: called with the error set, it has cleared the error
\* and written 'AT' and the command
C23_WitnessAtc ==
    /\ ril.last.op = "cmd_atc" /\ io.preError # 0
    /\ io.out = StrAT \o StrCMEE /\ io.ret = 7
    /\ ril.error = 0

\* C23, ril_ate_set: called with the error set, it has written the 'E' alone
C23_WitnessAte ==
    /\ ril.last.op = "ate_set" /\ io.preError # 0
    /\ io.out = <<69>>

\* C23, the primitives that test the error: each of them was called with
\* the error set, has written nothing and has returned 0
C23_Honoured ==
    ril.last.op \in CmdOps \ {"cmd_char", "cmd_atc"} /\ io.preError # 0 =>
        io.out = <<>> /\ io.ret = 0 /\ ril.error = io.preError

C23_WitnessEol ==
    /\ ril.last.op = "cmd_eol" /\ io.preError # 0 /\ io.room # 0
    /\ io.out = <<>> /\ io.ret = 0

\* a string was written and what was written has been read back
ReadBack == ril.last.op = "strqqe" /\ io.preError = 0

\* C24 - round trip of strings: what ril_cmd_strqqe wrote for a string,
\* read by ril_rsp_strqqe with the same quotes and escape, is consumed
\* exactly and gives the string.
C24_RoundTrip ==
    ReadBack =>
        /\ ril.error = 0
        /\ io.ret = Len(io.pre)
        /\ ril.buf = <<>> /\ io.in = <<>>
        /\ io.str = io.arg

\* C24 witness: the string made of the escape character was written as
\* quote, escape, escape, quote, and reading it back has failed with
\* STRQQE_END
C24_Witness ==
    /\ ReadBack /\ io.arg = <<92>>
    /\ io.pre = <<34, 92, 92, 34>>
    /\ ril.error = 0 - RIL_ERR_RSP_STRQQE_END /\ io.ret = 0

\* C24, the escapes: a string with a quote inside was read back whole, and
\* the string returned has the escape character in it
C24_WitnessEscaped ==
    /\ ReadBack /\ io.arg = <<97, 34>>
    /\ ril.error = 0 /\ io.ret = Len(io.pre)
    /\ io.str = <<97, 92, 34>>

\* C24, the strings without quote and escape: each was consumed exactly
\* and returned as it was
C24_PlainRoundTrip ==
    ReadBack /\ (\A i \in 1..Len(io.arg) : io.arg[i] \in {97, 98}) =>
        /\ ril.error = 0
        /\ io.ret = Len(io.pre)
        /\ ril.buf = <<>> /\ io.in = <<>>
        /\ io.str = io.arg

C24_WitnessPlain ==
    /\ ReadBack /\ io.arg = <<97, 98>>
    /\ io.str = <<97, 98>> /\ io.ret = 4

\* C26 - the dispatch terminates and is correct: ril_rsp_stra leaves its
\* loop within as many rounds as the table has entries; it returns the
\* index of the entry equal to what it read, which it has consumed, and
\* returns -1 with nothing consumed when nothing was read or no entry is
\* equal.
C26_Dispatch ==
    /\ io.pc = "search" => io.steps <= Len(io.table)
    /\ io.pc = "done" /\ ril.last.op = "stra" =>
          \/ /\ io.ret >= 0
             /\ io.table[io.ret + 1] = SubSeq(BytesRead, 1, io.val)
             /\ ril.buf = SubSeq(BytesRead, io.val + 1, Len(BytesRead))
          \/ /\ io.ret = 0 - 1
             /\ \A i \in 1..Len(io.table) : io.table[i] # SubSeq(BytesRead, 1, io.val)
             /\ ril.buf = BytesRead /\ ril.index = 0

\* C26 witness: the name read is after the one entry of the table, and the
\* loop is in a round after the last that a search of the table can need,
\* with the bounds it had at the start
C26_Witness ==
    /\ io.pc = "search"
    /\ io.table = <<<<65>>>> /\ SubSeq(ril.buf, 1, io.val) = <<66>>
    /\ io.steps > Len(io.table)
    /\ io.min = 0 /\ io.max = 1

\* C26, the calls that return: each returns the index of the entry read
\* and consumes it, or -1 with nothing consumed
C26_ReturnsRight ==
    io.pc = "done" /\ ril.last.op = "stra" =>
        \/ /\ io.ret >= 0
           /\ io.table[io.ret + 1] = SubSeq(BytesRead, 1, io.val)
           /\ ril.buf = SubSeq(BytesRead, io.val + 1, Len(BytesRead))
        \/ /\ io.ret = 0 - 1
           /\ \A i \in 1..Len(io.table) : io.table[i] # SubSeq(BytesRead, 1, io.val)
           /\ ril.buf = BytesRead /\ ril.index = 0

\* C26, the names of the table: the search of a name that is in the table
\* is never in a round beyond the entries
C26_EntryFound ==
    io.pc = "search" /\ (\E i \in 1..Len(io.table) : io.table[i] = SubSeq(ril.buf, 1, io.val)) =>
        io.steps <= Len(io.table)

C26_WitnessFound ==
    /\ io.pc = "done" /\ ril.last.op = "stra"
    /\ Len(io.table) = 3 /\ io.ret = 2
    /\ ril.buf = <<58>>

\* C26 as a property of the behaviours: a call that has entered the loop
\* leaves it
C26_Terminates == (io.pc = "search") ~> (io.pc = "done")

\* _g350_sms_send has returned to the client c
SmsSendReturned(c) == client[c].pc = "idle" /\ client[c].op = "sms_send"

\* C27 - SMS send reports failures: when _g350_sms_send returns a message
\* reference that is not negative the slot had completed without error,
\* and when the slot completed with ERROR or TIMEOUT, the prompt having
\* come or not, _gs_sms_send returns a negative value and the caller
\* raises an error.
C27_SmsSendReportsFailures ==
    \A c \in Clients :
        SmsSendReturned(c) =>
            /\ client[c].res = "ERR_OK" /\ client[c].ret >= 0 => client[c].err = 0
            /\ client[c].err # 0 => client[c].ret < 0 /\ client[c].res # "ERR_OK"

\* C27 witness: the prompt never came, the slot timed out, and
\* _g350_sms_send has returned the message reference 1 without an error
C27_Witness ==
    \E c \in Clients :
        /\ SmsSendReturned(c)
        /\ client[c].err = GS_ERR_TIMEOUT
        /\ client[c].res = "ERR_OK" /\ client[c].ret = 1

\* C27, the accepted message: the slot completed without error and the
\* reference of '+CMGS' is returned
C27_WitnessAccepted ==
    \E c \in Clients :
        /\ SmsSendReturned(c)
        /\ client[c].err = 0
        /\ client[c].res = "ERR_OK" /\ client[c].ret > 1

\* C27, the message that is not accepted: the prompt came, the text was
\* written, the slot ended with an error and 0 is returned as the reference
C27_WitnessRefused ==
    \E c \in Clients :
        /\ SmsSendReturned(c)
        /\ client[c].err # 0
        /\ client[c].res = "ERR_OK" /\ client[c].ret = 0

\* _g350_attach has returned to the client c
AttachHasReturned(c) == client[c].pc = "idle" /\ client[c].op = "g350_attach"

\* C28 - attach deadline: attach returns success only if the profile was
\* reported attached by '+UUPSDA' or '+UPSND', and it returns the timeout
\* error when the wait for the registration or the wait for the
\* attachment ran out, whatever the wait-timeout.
C28_AttachDeadline ==
    \A c \in Clients :
        AttachHasReturned(c) =>
            /\ client[c].res = "ERR_OK" => client[c].seen
            /\ client[c].expired # "none" => client[c].res = "ERR_TIMEOUT_EXC"

\* C28 witness: with a wait-timeout of 1000 ms the wait for the attachment
\* ran out at timeout = 0, the profile never reported attached, and attach
\* has returned success
C28_Witness ==
    \E c \in Clients :
        /\ AttachHasReturned(c)
        /\ client[c].args = <<1000>> /\ client[c].timeout = 0
        /\ client[c].expired = "attachment" /\ ~client[c].seen
        /\ gs.attached = 0
        /\ client[c].res = "ERR_OK"

\* C28, the registration: the wait for the registration ran out at
\* timeout = 0 and attach went on to activate the profile
C28_WitnessRegistration ==
    \E c \in Clients :
        /\ client[c].op = "g350_attach" /\ client[c].pc = "psd"
        /\ client[c].expired = "registration" /\ ~Registered(gs)

\* C28, the query: '+UPSND: 0,8,0' was taken for an attached profile
C28_WitnessQuery ==
    \E c \in Clients :
        /\ AttachHasReturned(c)
        /\ client[c].res = "ERR_OK" /\ gs.attached = 1 /\ ~client[c].seen
        /\ client[c].expired = "none"

\* C28, the deadline between two steps: with 250 ms the waits run out below
\* zero and the timeout error is returned
C28_WitnessTimeout ==
    \E c \in Clients :
        /\ AttachHasReturned(c)
        /\ client[c].args = <<250>> /\ client[c].expired = "attachment"
        /\ client[c].res = "ERR_TIMEOUT_EXC"

\* C29 - prompt mode always ends: the prompt branch of the loop takes at
\* most 40 polls and leaves gs.mode = GS_MODE_NORMAL, whether the owner
\* wrote or not; _gs_wait_for_slot_mode writes only when it found Prompt
\* mode within its 100 polls and then leaves gs.mode = GS_MODE_NORMAL, and
\* otherwise returns 1 having written nothing.
C29_PromptModeEnds ==
    /\ loop.pc = "prompt" => loop.ss <= PromptPolls
    /\ it.kind = "promptexit" =>
          /\ it.ret <= PromptPolls
          /\ gs.mode = GS_MODE_NORMAL /\ loop.pc = "top"
    /\ it.kind = "waitmode" =>
          /\ client[it.lineTag].step <= WaitModePolls
          /\ IF it.wrote
             THEN it.preMode = GS_MODE_PROMPT /\ it.ret = 0 /\ gs.mode = GS_MODE_NORMAL
             ELSE it.preMode # GS_MODE_PROMPT /\ it.ret = 1

\* C29 witness: the owner had given up, the prompt came, and the loop has
\* left the prompt branch after its 40 polls
C29_Witness ==
    /\ it.kind = "promptexit" /\ it.ret = PromptPolls /\ it.preMode = GS_MODE_PROMPT
    /\ gs.mode = GS_MODE_NORMAL
    /\ client[1].op = "sms_send" /\ client[1].ret = 1 /\ client[1].pc # "waitmode"

\* C29, the owner that writes: it found Prompt mode, has written and has
\* left gs.mode = GS_MODE_NORMAL with the loop in its prompt branch
C29_WitnessWrote ==
    /\ it.kind = "waitmode" /\ it.wrote
    /\ loop.pc = "prompt" /\ gs.mode = GS_MODE_NORMAL

\* C29, the owner that gives up: 100 polls in Normal mode, 1 is returned
C29_WitnessGaveUp ==
    /\ it.kind = "waitmode" /\ ~it.wrote /\ it.ret = 1
    /\ client[1].step = WaitModePolls

\* C29 as a property of the behaviours: the loop leaves the prompt branch
C29_PromptLeft == (loop.pc = "prompt") ~> (loop.pc = "top" /\ gs.mode = GS_MODE_NORMAL)

\* the last step woke a client of recvfrom from _gs_socket_wait_rx and the
\* socket was to be closed
WokenByClose ==
    /\ it.kind = "woken" /\ client[it.ret].api = "recvfrom"
    /\ it.sockPre.to_be_closed # 0

\* C30 - receive-from is interruptible by remote close: a client of recvfrom
\* that waits for receive-readiness and wakes to a socket to be closed
\* returns the bytes read so far, 0, with no error, and neither writes a
\* further read command nor waits again, with or without a socket timeout.
C30_RecvfromInterruptible ==
    WokenByClose =>
        /\ client[it.ret].pc = "idle"
        /\ client[it.ret].res = "ERR_OK"
        /\ client[it.ret].ret = 0

\* C30 witness: the socket has no timeout; the receiver was told of 0
\* bytes, waited, was woken by the remote close and has written a second
\* read command, for 0 bytes
C30_Witness ==
    /\ client[1].api = "recvfrom" /\ client[1].timeout = 0
    /\ gs_sockets[0].to_be_closed = 1
    /\ Len(client[1].sent) = 2
    /\ client[1].args[2] = 0

\* C30, the same with a socket timeout of 1000 ms
C30_WitnessTimeout ==
    /\ client[1].api = "recvfrom" /\ client[1].timeout = 1000
    /\ gs_sockets[0].to_be_closed = 1
    /\ Len(client[1].sent) = 2

\* C30, the receiver waits again: its socket is to be closed, the modem
\* reported 0 bytes once more and nothing will signal the semaphore
C30_WitnessWaitsAgain ==
    /\ client[1].api = "recvfrom" /\ client[1].pc = "waitrx" /\ client[1].timeout = 0
    /\ gs_sockets[0].to_be_closed = 1 /\ gs_sockets[0].rx = 0
    /\ Len(client[1].sent) = 2

\* C30, the return after the close: the second read command failed and
\* the call returns an error instead of 0 bytes
C30_WitnessError ==
    /\ it.kind = "returned" /\ client[1].api = "recvfrom" /\ client[1].pc = "idle"
    /\ gs_sockets[0].to_be_closed = 1
    /\ Len(client[1].sent) = 2 /\ client[1].res = "ERR_IOERROR_EXC"

\* C30, what holds: a datagram receive that wakes to a closed socket
\* carries on with a read command for 0 bytes
C30_ReadsAgain ==
    WokenByClose => client[it.ret].pc = "acquire" /\ client[it.ret].args[2] = client[it.ret].rb

(***************************************************************************)
(* Properties of the socket operations, the life cycle and the reader      *)
(***************************************************************************)
\* the client c is in a send or a sendto
Sending(c) == client[c].api \in {"send", "sendto"}

\* the sizes of the write commands the client c has written
ChunksOf(c) == [i \in 1..Len(client[c].sent) |-> client[c].sent[i].args[2]]

\* C31 - send makes progress and terminates: every write command carries at
\* least 1 and at most 32 bytes, the operation ends at the first slot error
\* or unparsable reply with the bytes written so far, it returns success
\* only with all len bytes written, and it writes no more commands than it
\* has bytes to send, whatever the modem reports.
C31_SendTerminates ==
    \A c \in Clients : Sending(c) =>
        /\ \A i \in 1..Len(client[c].sent) :
              ChunksOf(c)[i] >= 1 /\ ChunksOf(c)[i] <= MAX_SOCK_HEX_BUF \div 4
        /\ (client[c].pc = "idle" /\ client[c].res = "ERR_OK") => client[c].ret >= client[c].args[2]
        /\ Len(client[c].sent) <= 1 + client[c].rb

\* C31 witness: the modem has reported 0 bytes written three times, and
\* the send, with none of its 40 bytes written, has written its fourth
\* command
C31_Witness ==
    /\ client[1].api = "send" /\ client[1].rb = 0
    /\ Len(client[1].sent) = MaxWrites
    /\ client[1].args[2] = SendLen

\* C31, the send that ends: 32 and 8 bytes reported, two commands, 40
\* returned
C31_WitnessDone ==
    /\ client[1].api = "send" /\ client[1].pc = "idle" /\ client[1].res = "ERR_OK"
    /\ client[1].ret = SendLen
    /\ ChunksOf(1) = <<32, 8>>

\* C31, the send that stops on an error, with the bytes written so far
C31_WitnessError ==
    /\ client[1].api = "sendto" /\ client[1].pc = "idle" /\ client[1].res = "ERR_IOERROR_EXC"
    /\ client[1].ret = 32 /\ Len(client[1].sent) = 2

\* C31, what holds: the chunks are of 1 to 32 bytes when the modem reports
\* no more than it was given, and the operation returns success only with
\* len bytes or more reported
C31_ChunksAndEnd ==
    \A c \in Clients : Sending(c) =>
        /\ (client[c].rb <= client[c].args[2]) =>
              \A i \in 1..Len(client[c].sent) :
                 ChunksOf(c)[i] >= 1 /\ ChunksOf(c)[i] <= MAX_SOCK_HEX_BUF \div 4
        /\ (client[c].pc = "idle" /\ client[c].res = "ERR_OK") => client[c].ret >= client[c].args[2]

\* the loop has found gs.talking set and is about to read the serial port
\* or reading it
LoopReads == loop.pc \in {"checked", "readline"}

\* the last step was the return of _gs_stop or _gs_start with the result r
Returned(kind, r) == it.kind = kind /\ it.ret = r

\* _g350_startup or _g350_shutdown is past a _gs_stop that returned 0
LifeStopped == life.pc \in {"su_config", "sd_off"} /\ life.err = "ERR_OK"

\* C32 - start/stop handshake: _gs_stop returns 0 only with gs.running = 0,
\* and the loop then reads nothing from the serial port while gs.talking is
\* 0; _gs_start returns 0 only with gs.running = 1; the polls are at most
\* 50 and 30, and a timeout is returned only when they are used up.
C32_Handshake ==
    /\ Returned("gs_stop", GS_ERR_OK) => gs.running = 0 /\ (gs.talking = 0 => ~LoopReads)
    /\ (LifeStopped /\ gs.talking = 0) => ~LoopReads
    /\ Returned("gs_start", GS_ERR_OK) => gs.running = 1
    /\ \A c \in Clients :
          /\ client[c].pc = "stop_poll" => client[c].step \in 0..StopPolls
          /\ client[c].pc = "start_poll" => client[c].step \in 0..StartPolls
    /\ (it.kind \in {"gs_stop", "gs_start"} /\ it.ret = GS_ERR_TIMEOUT) =>
          client[it.lineTag].step = 0

\* C32, what holds: the results of _gs_stop and _gs_start agree with
\* gs.running, and the polls are bounded
C32_ResultsAndPolls ==
    /\ Returned("gs_stop", GS_ERR_OK) => gs.running = 0
    /\ Returned("gs_start", GS_ERR_OK) => gs.running = 1
    /\ \A c \in Clients :
          /\ client[c].pc = "stop_poll" => client[c].step \in 0..StopPolls
          /\ client[c].pc = "start_poll" => client[c].step \in 0..StartPolls
    /\ (it.kind \in {"gs_stop", "gs_start"} /\ it.ret = GS_ERR_TIMEOUT) =>
          client[it.lineTag].step = 0

\* C32 witness: _g350_startup is past a _gs_stop that returned 0,
\* gs.talking is 0, and the loop, which had found gs.talking set by a
\* bypass(0), has set gs.running and is reading the serial port
C32_Witness ==
    /\ LifeStopped /\ life.pc = "su_config"
    /\ gs.talking = 0 /\ gs.running = 1
    /\ loop.pc = "readline"

\* C32, the timeouts: _gs_stop has polled 50 times and returned
\* GS_ERR_TIMEOUT
C32_WitnessStopTimeout ==
    /\ Returned("gs_stop", GS_ERR_TIMEOUT) /\ gs.running = 1 /\ gs.talking = 0

\* C32, _gs_start has polled 30 times and returned GS_ERR_TIMEOUT
C32_WitnessStartTimeout ==
    /\ Returned("gs_start", GS_ERR_TIMEOUT) /\ gs.talking = 1

\* C32, the loop inside the prompt branch while _gs_stop polls
C32_WitnessPrompt ==
    /\ loop.pc = "prompt" /\ loop.ss > 0
    /\ client[1].pc = "stop_poll" /\ client[1].step < StopPolls

\* the client c has returned from a set-operator whose slot ended with err
OperatorSet(c, err) ==
    client[c].api = "set_operator" /\ client[c].pc = "idle" /\ client[c].err = err

\* C33 - set-operator success: when the modem answers the operator
\* selection with OK the operation returns no error; it returns a timeout
\* error only when the slot timed out and a modem error only when the slot
\* failed.
C33_SetOperatorSuccess ==
    \A c \in Clients :
        /\ OperatorSet(c, GS_ERR_OK) => client[c].res = "ERR_OK"
        /\ (client[c].api = "set_operator" /\ client[c].pc = "idle") =>
              /\ client[c].res = "ERR_TIMEOUT_EXC" => client[c].err = GS_ERR_TIMEOUT
              /\ client[c].res = "g350exc" => client[c].err = GS_ERR_INVALID

\* C33 witness: the modem answered OK, the slot ended without error, and
\* the operation has returned the modem error
C33_Witness ==
    /\ OperatorSet(1, GS_ERR_OK) /\ client[1].res = "g350exc"
    /\ client[1].sent = <<[cmd |-> GS_CMD_COPS, args |-> <<>>]>>

\* C33, the slot timed out and the operation has returned the modem error
\* too, not the timeout error
C33_WitnessTimeout ==
    OperatorSet(1, GS_ERR_TIMEOUT) /\ client[1].res = "g350exc"

\* C33, what holds: the operation returns the modem error whatever the
\* slot's end
C33_AlwaysModemError ==
    \A c \in Clients :
        (client[c].api = "set_operator" /\ client[c].pc = "idle") => client[c].res = "g350exc"

\* the class a pattern describes, read as the pattern syntax has it: single
\* characters, and ranges of a lower limit, a dash and an upper limit
RECURSIVE InClass(_, _)
InClass(pat, c) ==
    IF pat = <<>> THEN FALSE
    ELSE IF Len(pat) >= 3 /\ pat[2] = 45
    THEN (pat[1] <= c /\ c <= pat[3]) \/ InClass(SubSeq(pat, 4, Len(pat)), c)
    ELSE c = pat[1] \/ InClass(Tail(pat), c)

\* the pattern with its leading caret, if any, taken off
Negated(pattern) == Len(pattern) >= 2 /\ pattern[1] = 94

Accepts(pattern, c) ==
    IF Negated(pattern) THEN ~InClass(Tail(pattern), c) ELSE InClass(pattern, c)

RECURSIVE AllIn(_, _)
AllIn(bytes, set) == bytes = <<>> \/ (Head(bytes) \in set /\ AllIn(Tail(bytes), set))

DecimalDigits == 48..57

HexDigits == (48..57) \cup (65..70) \cup (97..102)

\* the bytes the last call consumed
Consumed == SubSeq(io.pre, 1, io.ret)

\* C34 - character-class matching: ril_rsp_match_charp accepts exactly the
\* single characters of the pattern and the characters of its ranges, or
\* exactly the others after a leading '^'; the unsigned-integer matcher
\* consumes only decimal digits and the hex matcher only hex digits.
C34_CharacterClass ==
    /\ ril.last.op = "match_charp" =>
          (io.ret = 1) = Accepts(io.arg, Head(io.pre))
    /\ (ril.last.op = "uint" /\ io.preError = 0 /\ ril.last.buf = <<>>) =>
          AllIn(Consumed, DecimalDigits)
    /\ (ril.last.op = "hex" /\ io.preError = 0 /\ ril.last.buf = <<>>) =>
          AllIn(Consumed, HexDigits)

\* C34 witness: the unsigned-integer matcher was given '1-2,' and has
\* consumed '1-2'
C34_Witness ==
    /\ ril.last.op = "uint" /\ io.preError = 0 /\ ril.last.buf = <<>>
    /\ io.pre = <<49, 45, 50, 44>> /\ io.ret = 3 /\ ril.error = 0

\* C34, the class itself: '-' is accepted for the pattern '0-9'
C34_WitnessDash ==
    /\ ril.last.op = "match_charp" /\ io.arg = PatDigits
    /\ io.pre = <<45>> /\ io.ret = 1

\* C34, a character of a range is accepted and one after it is refused
C34_WitnessRange ==
    /\ ril.last.op = "match_charp" /\ io.arg = PatHex
    /\ io.pre \in {<<66>>, <<71>>} /\ (io.ret = 1) = (io.pre = <<66>>)

\* C34, what holds: the matcher accepts exactly the class and, where the
\* pattern has a range, the dash
C34_ClassAndDash ==
    ril.last.op = "match_charp" =>
        (io.ret = 1) = (IF Negated(io.arg)
                        THEN ~(InClass(Tail(io.arg), Head(io.pre))
                               \/ (Head(io.pre) = 45 /\ \E i \in 2..Len(io.arg) : io.arg[i] = 45))
                        ELSE InClass(io.arg, Head(io.pre))
                             \/ (Head(io.pre) = 45 /\ \E i \in 1..Len(io.arg) : io.arg[i] = 45))

\* the client c has returned from a recv whose last read command ended
\* with the slot error err, rb bytes read before it
RecvEnded(c, err, rb) ==
    /\ client[c].api = "recv" /\ client[c].pc = "idle" /\ client[c].sent # <<>>
    /\ client[c].err = err /\ client[c].rb = rb

\* C35 - recv reports a failed read: when the read command of recv fails,
\* with ERROR or a slot timeout, and no byte has been read yet in the call,
\* recv returns an error and not a success of 0 bytes.
C35_RecvReportsFailedRead ==
    \A c \in Clients : \A err \in {GS_ERR_INVALID, GS_ERR_TIMEOUT} :
        RecvEnded(c, err, 0) => client[c].res # "ERR_OK"

\* C35 witness: the first read command of a recv was answered with ERROR
\* and recv has returned success with 0 bytes
C35_Witness ==
    /\ RecvEnded(1, GS_ERR_INVALID, 0) /\ Len(client[1].sent) = 1
    /\ client[1].res = "ERR_OK" /\ client[1].ret = 0

\* C35, the read command timed out in the slot, with the same result
C35_WitnessTimeout ==
    /\ RecvEnded(1, GS_ERR_TIMEOUT, 0)
    /\ client[1].res = "ERR_OK" /\ client[1].ret = 0

\* C35, what holds: a failed read command makes recv return success
\* exactly when no byte was read before it
C35_ErrorOnlyAfterBytes ==
    \A c \in Clients : \A err \in {GS_ERR_INVALID, GS_ERR_TIMEOUT} : \A rb \in 0..8 :
        RecvEnded(c, err, rb) => ((client[c].res = "ERR_OK") = (rb = 0))

\* C35, bytes were read before the read command failed, and recv has
\* returned the error
C35_WitnessAfterBytes ==
    \E rb \in 1..8 : RecvEnded(1, GS_ERR_INVALID, rb) /\ client[1].res = "ERR_IOERROR_EXC"

\* the last call was the libril command op, issued after a command that
\* had ended with an error
AfterFailed(op) == ril.last.op = op /\ io.preError # 0

\* C36 - the sticky error is scoped to one command: after a libril command
\* has ended with an error, the next ril_at_* or ril_ate_set command starts
\* with the error cleared, transmits its full AT request and completes with
\* error 0 on a well-formed answer.
C36_ErrorScopedToCommand ==
    /\ AfterFailed("at_read") =>
          /\ io.out = EchoCMEE
          /\ (io.pre = ResponseDense /\ ril.last.buf = <<>>) => io.ret = 0
    /\ AfterFailed("ate_set") =>
          /\ io.out = RequestATE0
          /\ (io.pre = CRLF \o LineOK /\ ril.last.buf = <<>>) => io.ret = 0

\* C36 witness: 'AT+CMEE?' was issued after a failed command, with the
\* well-formed answer waiting; nothing was written and the old error is
\* returned
C36_Witness ==
    /\ AfterFailed("at_read") /\ io.pre = ResponseDense /\ ril.last.buf = <<>>
    /\ io.out = <<>> /\ io.ret = io.preError /\ ril.error = io.preError

\* C36, 'ATE0' after a failed command: the lone 'E' is written and the old
\* error is returned
C36_WitnessAte ==
    /\ AfterFailed("ate_set") /\ io.pre = CRLF \o LineOK
    /\ io.out = <<69>> /\ io.ret = io.preError

\* C36, the same commands on a parser without error complete with error 0
C36_WitnessClean ==
    /\ ril.last.op = "at_read" /\ io.preError = 0 /\ io.pre = ResponseDense
    /\ io.out = EchoCMEE /\ io.ret = 0

\* C36, 'ATE0' on a parser without error completes with error 0
C36_WitnessCleanAte ==
    /\ ril.last.op = "ate_set" /\ io.preError = 0 /\ io.pre = CRLF \o LineOK
    /\ io.out = RequestATE0 /\ io.ret = 0

\* C36, what holds: once a command has ended with an error every later
\* command returns that error without its request, until the parser is
\* flushed
C36_ErrorStaysForever ==
    (ril.last.op \in {"at_read", "ate_set"} /\ io.preError # 0) =>
        ril.error = io.preError /\ io.ret = io.preError /\ io.out \in {<<>>, <<69>>}

IsPrefix(s, t) == Len(s) <= Len(t) /\ s = SubSeq(t, 1, Len(s))

\* every byte the modem sent has been read and the loop is between calls
AllRead == rl.emit = <<>> /\ rl.fifo = <<>> /\ rl.pc = "idle"

\* C37 - whole-line delivery: every complete line the modem sends is given
\* to the classification once and whole, however its bytes arrive with
\* respect to the 100 ms poll of the loop; a timeout after a part of a line
\* neither drops the part nor splits the line.
C37_WholeLines ==
    /\ IsPrefix(rl.handed, rl.emitted)
    /\ AllRead => rl.handed = rl.emitted

\* C37 witness: the timeout came after a part of '+UUSOCL: 0' was read,
\* the part was dropped and the rest of the line was classified as a line
C37_Witness ==
    /\ rl.emitted = <<UrcUUSOCL>> /\ AllRead
    /\ Len(rl.handed) = 1 /\ rl.handed[1] # UrcUUSOCL
    /\ \E n \in 1..Len(UrcUUSOCL) : rl.handed[1] = SubSeq(UrcUUSOCL, n, Len(UrcUUSOCL))

\* C37, the whole 'OK' was lost: its first byte was read before the
\* timeout and the three bytes left are taken for no line
C37_WitnessLost ==
    rl.emitted = <<LineOK>> /\ AllRead /\ rl.handed = <<>>

\* C37, the lines whose bytes arrive within one call are classified whole
C37_WitnessWhole ==
    rl.emitted = <<LineOK, UrcUUSOCL>> /\ AllRead /\ rl.handed = rl.emitted

\* C37, what holds: what is classified is the end of a line that was sent
C37_EndsOfLines ==
    \A i \in 1..Len(rl.handed) : \E j \in 1..Len(rl.emitted) : \E n \in 1..Len(rl.emitted[j]) :
        rl.handed[i] = SubSeq(rl.emitted[j], n, Len(rl.emitted[j]))

\* the client c holds the slot lock: it is inside a command, or its last
\* call was the bypass(on) that took the lock and kept it
HoldsLock(c) ==
    \/ client[c].pc \in {"send", "waitmode", "wait", "release"}
    \/ client[c].api = "bypass" /\ client[c].args = <<1>>
          /\ client[c].pc \in {"gs_stop", "stop_poll", "stop_check", "idle"}

\* C38 - the slot lock stays binary: in every sequence of startup,
\* shutdown, bypass(on), bypass(off) and commands the lock is released only
\* by a caller that holds it, and its count never exceeds 1.
C38_SlotLockBinary ==
    /\ slotlock \in {0, 1}
    /\ it.kind = "by_unlock" => it.ret = 0

\* C38 witness: bypass(off) was called with the lock free, has started the
\* loop and signalled the lock, whose count is now 2
C38_Witness ==
    /\ it.kind = "by_unlock" /\ it.ret = 1 /\ slotlock = 2
    /\ client[1].api = "bypass" /\ client[1].args = <<0>> /\ client[1].pc = "idle"

\* C38, the mutual exclusion afterwards: the caller of bypass(on) keeps the
\* lock while another thread is inside a command with the slot
C38_WitnessTwoHolders ==
    HoldsLock(1) /\ client[1].pc = "idle" /\ HoldsLock(2) /\ client[2].pc = "wait"

\* C38, a bypass(off) after a bypass(on) gives the lock back: the count is 1
C38_WitnessPaired ==
    /\ it.kind = "by_unlock" /\ it.ret = 0 /\ slotlock = 1
    /\ life.pc = "idle" /\ calls = 2

\* C38, what holds: the count exceeds 1 by no more than the number of
\* calls of bypass
C38_CountBounded == slotlock \in 0..(1 + calls)

\* the index of the socket table the last step used: the one of the socket
\* URC the loop handled, or the one _gs_usocr gave to _gs_socket_new
IndexUsed ==
    IF it.kind = "line" /\ it.urc \in SocketUrcs
    THEN UrcSocketId(it.line, Len(it.line), it.urc)
    ELSE IF it.kind \in {"created", "collision"} THEN it.ret
    ELSE NULL

\* C39 - socket-table indices are in range: every access to the socket
\* table uses an index in 0..MAX_SOCKS-1, the indices taken from the
\* +USOCR result and from the +UUSOCL, +UUSORD and +UUSORF URCs included,
\* for every integer the modem sends.
C39_IndicesInRange == IndexUsed # NULL => SockIndexValid(IndexUsed)

\* C39 witness: the loop has handled '+UUSOCL: 7' and called
\* _gs_socket_closing(7), one past the last entry
C39_Witness ==
    /\ it.kind = "line" /\ it.urc = GS_CMD_UUSOCL
    /\ it.line = SocketUrcLine(GS_CMD_UUSOCL, MAX_SOCKS) /\ IndexUsed = MAX_SOCKS

\* C39, the result '+USOCR: 9' was given to _gs_socket_new and the index is
\* returned as the new socket
C39_WitnessCreated ==
    /\ it.kind = "created" /\ it.ret = MAX_SOCKS + 2
    /\ client[1].pc = "idle" /\ client[1].res = "ERR_OK" /\ client[1].ret = MAX_SOCKS + 2

\* C39, the data URCs: '+UUSORD: 9,4' or '+UUSORF: 9,4' was handled
C39_WitnessPending ==
    /\ it.kind = "line" /\ it.urc \in {GS_CMD_UUSORD, GS_CMD_UUSORF} /\ IndexUsed = MAX_SOCKS + 2

\* C39, the last entry of the table is used for '+USOCR: 6'
C39_WitnessLast ==
    /\ it.kind = "created" /\ it.ret = MAX_SOCKS - 1 /\ gs_sockets[MAX_SOCKS - 1].acquired = 1

\* C39, what holds: the index used is the integer the modem sent
C39_IndexIsModems == IndexUsed # NULL => IndexUsed \in ModemSocketIds

\* the client c waits for data in a recv called after client o had set the
\* receive timeout of the socket
RecvWaitsAfterSet(c, o) ==
    /\ client[c].api = "recv" /\ client[c].pc = "waitrx"
    /\ client[o].api = "setsockopt" /\ client[o].pc = "idle"
    /\ client[o].args[2] = 65535 /\ client[o].args[3] = 1
    /\ client[o].tag < client[c].tag

\* C40 - the receive timeout is stored without loss: for every option value
\* T >= 0 set through option 1, a later recv on the socket waits for
\* readiness at most T ms, and waits without end only when T = 0.
C40_TimeoutWithoutLoss ==
    RecvWaitsAfterSet(1, 2) =>
        /\ WaitsForever(client[1].timeout) => client[2].args[4] = 0
        /\ ~WaitsForever(client[1].timeout) => client[1].timeout <= client[2].args[4]

\* C40 witness: the timeout was set to 65536 ms, the recv has waited longer
\* than that and goes on waiting, without timeout
C40_Witness ==
    /\ RecvWaitsAfterSet(1, 2) /\ client[2].args[4] = 65536
    /\ WaitsForever(client[1].timeout) /\ gs_sockets[0].timeout = 0
    /\ now - client[1].t0 > 65536 /\ ~ENABLED WaitRxTimeout(1)

\* C40, a value of 16 bits is stored as it is and the recv ends with a
\* timeout
C40_WitnessFits ==
    /\ client[1].api = "recv" /\ client[1].pc = "idle" /\ client[1].res = "ERR_TIMEOUT_EXC"
    /\ client[1].timeout = 1000 /\ client[2].args = <<0, 65535, 1, 1000>>

\* C40, 66536 ms are stored as 1000 ms
C40_WitnessShort ==
    RecvWaitsAfterSet(1, 2) /\ client[2].args[4] = 66536 /\ client[1].timeout = 1000

\* C40, what holds: the recv waits the option value modulo 2^16
C40_TimeoutModulo ==
    RecvWaitsAfterSet(1, 2) => client[1].timeout = client[2].args[4] % 65536
====
